---- MODULE Spec2Model ----
(***************************************************************************)
(* Model of the wind-signal analysis pipeline (analyze_typhoon.py) and of  *)
(* the tier export (export_web_data.py).                                   *)
(*                                                                         *)
(* Speeds are whole km/h.  A missing reading is NaN.  Fractions            *)
(* (coverage, percentile rank) are kept as whole percents and every        *)
(* comparison of a quotient is cross-multiplied, so the arithmetic is      *)
(* exact.  A timestamp is the index of its 10-minute slot.                 *)
(***************************************************************************)
EXTENDS Integers, Sequences, FiniteSets, TLC

(***************************************************************************)
(* Bounds of the model.                                                    *)
(***************************************************************************)
MaxRows == 6
MaxPeriods == 3

(***************************************************************************)
(* Program constants.                                                      *)
(***************************************************************************)
NaN == -1

DEFAULT_THRESHOLDS_KMH ==
    [T1 |-> 22, T3 |-> 41, T7 |-> 50, T8 |-> 63, T10 |-> 118]

\* The keys of DEFAULT_THRESHOLDS_KMH in insertion order (dict order).
ThresholdKeys == <<"T1", "T3", "T7", "T8", "T10">>

\* hko_standard_met = count_ge_t8 >= 4; meets = count_ge_T8 >= 4
HKO_MIN_STATIONS == 4

\* df[df["n_stations"] <= 8]
REFERENCE_STATIONS == 8

AGGREGATION_METHODS == {"coverage", "percentile", "mean"}

BelowT1 == "Below T1"

(***************************************************************************)
(* Sequence helpers.                                                       *)
(***************************************************************************)
RECURSIVE SumSeq(_)
SumSeq(s) == IF s = <<>> THEN 0 ELSE Head(s) + SumSeq(Tail(s))

\* valid = speeds[~np.isnan(speeds)]
Valid(speeds) == SelectSeq(speeds, LAMBDA v : v # NaN)

\* int(np.sum(speeds >= thr)): a NaN compares false
CountGe(speeds, thr) == Len(SelectSeq(speeds, LAMBDA v : v # NaN /\ v >= thr))

\* Stable sort of a sequence of <<name, value>> pairs by value, ascending:
\* x goes after the elements whose value is not above its own.
RECURSIVE InsertSorted(_, _)
InsertSorted(x, s) ==
    IF s = <<>> THEN <<x>>
    ELSE IF x[2] < Head(s)[2] THEN <<x>> \o s
    ELSE <<Head(s)>> \o InsertSorted(x, Tail(s))

RECURSIVE SortedByValue(_)
SortedByValue(s) ==
    IF s = <<>> THEN <<>>
    ELSE InsertSorted(s[Len(s)], SortedByValue(SubSeq(s, 1, Len(s) - 1)))

\* the values of a sequence of numbers, ascending
SortedValues(s) ==
    LET t == SortedByValue([i \in 1..Len(s) |-> <<i, s[i]>>])
    IN  [i \in 1..Len(s) |-> t[i][2]]

(***************************************************************************)
(* Threshold ladder.                                                       *)
(***************************************************************************)
\* sorted(thresholds_kmh.items(), key=lambda kv: kv[1])
SortedThresholdItems(thresholds_kmh) ==
    SortedByValue([i \in 1..Len(ThresholdKeys) |->
                      <<ThresholdKeys[i], thresholds_kmh[ThresholdKeys[i]]>>])

Ladder == SortedThresholdItems(DEFAULT_THRESHOLDS_KMH)

Labels == {Ladder[i][1] : i \in 1..Len(Ladder)}

(***************************************************************************)
(* Snapshot classifier: _decide_signal_for_snapshot.                       *)
(***************************************************************************)
\* np.nanpercentile(valid, q) >= thr with linear interpolation, q in percent.
\* With v ascending and h = q*(n-1)/100, the percentile is
\* v[lo] + (h - lo)*(v[lo+1] - v[lo]); both sides are multiplied by 100.
PercentileGe(valid, q, thr) ==
    LET v  == SortedValues(valid)
        n  == Len(v)
        h  == q * (n - 1)
        lo == h \div 100
        fr == h - 100 * lo
        hi == IF lo + 2 <= n THEN lo + 2 ELSE n
    IN  100 * v[lo + 1] + fr * (v[hi] - v[lo + 1]) >= 100 * thr

\* variants of Passed: the count has to equal min_count; the coverage
\* fraction is required next to min_count
Passed_ExactCount(valid, thr, method, coverage, percentile, min_count) ==
    IF method = "coverage"
    THEN LET cnt == CountGe(valid, thr)
         IN  IF min_count # {}
             THEN \A m \in min_count : cnt = m
             ELSE 100 * cnt >= coverage * Len(valid)
    ELSE IF method = "percentile" THEN PercentileGe(valid, percentile, thr)
    ELSE SumSeq(valid) >= thr * Len(valid)

Passed_BothRequired(valid, thr, method, coverage, percentile, min_count) ==
    IF method = "coverage"
    THEN LET cnt == CountGe(valid, thr)
         IN  /\ \A m \in min_count : cnt >= m
             /\ 100 * cnt >= coverage * Len(valid)
    ELSE IF method = "percentile" THEN PercentileGe(valid, percentile, thr)
    ELSE SumSeq(valid) >= thr * Len(valid)

\* the pass test of one threshold under the chosen method
Passed(valid, thr, method, coverage, percentile, min_count) ==
    IF method = "coverage"
    THEN LET cnt == CountGe(valid, thr)
         IN  IF min_count # {}
             THEN \A m \in min_count : cnt >= m
             ELSE 100 * cnt >= coverage * Len(valid)
    ELSE IF method = "percentile" THEN PercentileGe(valid, percentile, thr)
    ELSE SumSeq(valid) >= thr * Len(valid)

\* variant of Chosen: the first label that passes is kept
RECURSIVE Chosen_FirstMatch(_, _, _, _, _, _, _)
Chosen_FirstMatch(items, k, valid, method, coverage, percentile, min_count) ==
    IF k = 0 THEN "None"
    ELSE LET before == Chosen_FirstMatch(items, k - 1, valid, method,
                                         coverage, percentile, min_count)
         IN  IF before # "None" THEN before
             ELSE IF Passed(valid, items[k][2], method, coverage, percentile,
                            min_count)
                  THEN items[k][1]
                  ELSE "None"

\* the value of `chosen` after the loop has walked items[1..k], ascending:
\* the k-th label if it passed, else what was chosen before it
RECURSIVE Chosen(_, _, _, _, _, _, _)
Chosen(items, k, valid, method, coverage, percentile, min_count) ==
    IF k = 0 THEN "None"
    ELSE IF Passed(valid, items[k][2], method, coverage, percentile, min_count)
         THEN items[k][1]
         ELSE Chosen(items, k - 1, valid, method, coverage, percentile, min_count)

\* "None" is Python's None; "ValueError" is the raise for an unknown method
DecideSignalForSnapshot(speeds_kmh, thresholds_kmh, method, coverage, percentile, min_count) ==
    LET valid == Valid(speeds_kmh)
        items == SortedThresholdItems(thresholds_kmh)
    IN  IF Len(speeds_kmh) = 0 THEN "None"
        ELSE IF Len(valid) = 0 THEN "None"
        ELSE IF method \notin AGGREGATION_METHODS THEN "ValueError"
        ELSE Chosen(items, Len(items), valid, method, coverage, percentile,
                    min_count)

(***************************************************************************)
(* Time-series aggregator: one iteration of the groupby loop of            *)
(* summarize_over_time, for the group of timestamp ts.                     *)
(***************************************************************************)
\* a float quotient num / den kept exact; 0 / 0 stands for math.nan
Ratio(num, den) == [num |-> num, den |-> den]

NaNRatio == Ratio(0, 0)

\* float(np.nanmean(speeds)) if n_valid > 0 else math.nan
AreaMean(speeds) ==
    IF Len(Valid(speeds)) > 0
    THEN Ratio(SumSeq(Valid(speeds)), Len(Valid(speeds)))
    ELSE NaNRatio

\* variant of CoverageOf: zero where no station is valid
CoverageOf_ZeroWhenEmpty(speeds, thr) ==
    IF Len(Valid(speeds)) > 0
    THEN Ratio(CountGe(speeds, thr), Len(Valid(speeds)))
    ELSE Ratio(0, 1)

\* float(np.sum(speeds >= thr)) / float(n_valid) if n_valid > 0 else math.nan
CoverageOf(speeds, thr) ==
    IF Len(Valid(speeds)) > 0
    THEN Ratio(CountGe(speeds, thr), Len(Valid(speeds)))
    ELSE NaNRatio

\* variant of SummarizeRow: counts and coverages only where the classifier ran
SummarizeRow_GatedCounts(ts, speeds, opts) ==
    LET n_valid == Len(Valid(speeds))
        gated == IF n_valid < opts.min_stations THEN <<>> ELSE speeds
        rec == IF n_valid < opts.min_stations THEN "None"
               ELSE DecideSignalForSnapshot(Valid(speeds),
                        DEFAULT_THRESHOLDS_KMH, opts.method, opts.coverage,
                        opts.percentile, opts.min_count)
    IN  [datetime           |-> ts,
         n_stations         |-> n_valid,
         area_mean_kmh      |-> AreaMean(speeds),
         recommended_signal |-> IF rec # "None" THEN rec ELSE BelowT1,
         coverage_T1        |-> CoverageOf(gated, DEFAULT_THRESHOLDS_KMH.T1),
         coverage_T3        |-> CoverageOf(gated, DEFAULT_THRESHOLDS_KMH.T3),
         coverage_T7        |-> CoverageOf(gated, DEFAULT_THRESHOLDS_KMH.T7),
         coverage_T8        |-> CoverageOf(gated, DEFAULT_THRESHOLDS_KMH.T8),
         coverage_T10       |-> CoverageOf(gated, DEFAULT_THRESHOLDS_KMH.T10),
         count_ge_T1        |-> CountGe(gated, DEFAULT_THRESHOLDS_KMH.T1),
         count_ge_T3        |-> CountGe(gated, DEFAULT_THRESHOLDS_KMH.T3),
         count_ge_T7        |-> CountGe(gated, DEFAULT_THRESHOLDS_KMH.T7),
         count_ge_T8        |-> CountGe(gated, DEFAULT_THRESHOLDS_KMH.T8),
         count_ge_T10       |-> CountGe(gated, DEFAULT_THRESHOLDS_KMH.T10)]

SummarizeRow(ts, speeds, opts) ==
    LET n_valid == Len(Valid(speeds))
        rec == IF n_valid < opts.min_stations THEN "None"
               ELSE DecideSignalForSnapshot(Valid(speeds),
                        DEFAULT_THRESHOLDS_KMH, opts.method, opts.coverage,
                        opts.percentile, opts.min_count)
    IN  [datetime           |-> ts,
         n_stations         |-> n_valid,
         area_mean_kmh      |-> AreaMean(speeds),
         recommended_signal |-> IF rec # "None" THEN rec ELSE BelowT1,
         coverage_T1        |-> CoverageOf(speeds, DEFAULT_THRESHOLDS_KMH.T1),
         coverage_T3        |-> CoverageOf(speeds, DEFAULT_THRESHOLDS_KMH.T3),
         coverage_T7        |-> CoverageOf(speeds, DEFAULT_THRESHOLDS_KMH.T7),
         coverage_T8        |-> CoverageOf(speeds, DEFAULT_THRESHOLDS_KMH.T8),
         coverage_T10       |-> CoverageOf(speeds, DEFAULT_THRESHOLDS_KMH.T10),
         count_ge_T1        |-> CountGe(speeds, DEFAULT_THRESHOLDS_KMH.T1),
         count_ge_T3        |-> CountGe(speeds, DEFAULT_THRESHOLDS_KMH.T3),
         count_ge_T7        |-> CountGe(speeds, DEFAULT_THRESHOLDS_KMH.T7),
         count_ge_T8        |-> CountGe(speeds, DEFAULT_THRESHOLDS_KMH.T8),
         count_ge_T10       |-> CountGe(speeds, DEFAULT_THRESHOLDS_KMH.T10)]

\* the timestamps of an observation table, ascending: groupby(sort=True)
RECURSIVE AscendingKeys(_)
AscendingKeys(keys) ==
    IF keys = {} THEN <<>>
    ELSE LET least == CHOOSE k \in keys : \A other \in keys : k <= other
         IN  <<least>> \o AscendingKeys(keys \ {least})

\* g["mean_kmh"] of the group of timestamp ts, in the table's row order
RECURSIVE GroupSpeeds(_, _)
GroupSpeeds(df, ts) ==
    IF df = <<>> THEN <<>>
    ELSE IF Head(df).datetime = ts
         THEN <<Head(df).mean_kmh>> \o GroupSpeeds(Tail(df), ts)
         ELSE GroupSpeeds(Tail(df), ts)

\* `rows` after the loop over df.groupby("datetime", sort=True)
GroupedRows(df, opts) ==
    LET keys == AscendingKeys({df[i].datetime : i \in 1..Len(df)})
    IN  [k \in 1..Len(keys) |->
            SummarizeRow(keys[k], GroupSpeeds(df, keys[k]), opts)]

\* the call of _decide_signal_for_snapshot for some group raises ValueError
ClassifierValueError(df, opts) ==
    \E k \in 1..Len(GroupedRows(df, opts)) :
        GroupedRows(df, opts)[k].recommended_signal = "ValueError"

\* pd.DataFrame(rows).sort_values("datetime"): a frame built from no rows
\* has no "datetime" column and sort_values raises KeyError
SortValuesKeyError(df, opts) == Len(GroupedRows(df, opts)) = 0

\* pd.DataFrame(rows).sort_values("datetime").reset_index(drop=True), where
\* it returns
SummarizeOverTimeDf(df, opts) ==
    LET rows == GroupedRows(df, opts)
        sorted == SortedByValue([k \in 1..Len(rows) |->
                                    <<k, rows[k].datetime>>])
    IN  [k \in 1..Len(rows) |-> rows[sorted[k][1]]]

(***************************************************************************)
(* Window annotation in main: tags every row, drops none.                  *)
(***************************************************************************)
AnnotateRow(row, timing) ==
    [f \in DOMAIN row \cup {"in_T8_window", "in_T10_window"} |->
        IF f = "in_T8_window"
        THEN /\ row.datetime >= timing.signal8_start
             /\ row.datetime <= timing.signal8_end
        ELSE IF f = "in_T10_window"
        THEN IF timing.has_signal10
             THEN /\ row.datetime >= timing.signal10_start
                  /\ row.datetime <= timing.signal10_end
             ELSE FALSE
        ELSE row[f]]

\* variant of AnnotateWindows: keeps only the rows inside the T8 window
AnnotateWindows_Filter(df, timing) ==
    IF timing.given
    THEN SelectSeq([i \in 1..Len(df) |-> AnnotateRow(df[i], timing)],
                   LAMBDA row : row.in_T8_window)
    ELSE df

AnnotateWindows(df, timing) ==
    IF timing.given THEN [i \in 1..Len(df) |-> AnnotateRow(df[i], timing)]
    ELSE df

(***************************************************************************)
(* Persistence state machine: compute_persistence_columns.                 *)
(***************************************************************************)
\* row.get(name, default) for the two optional window columns
GetInT8Window(row) ==
    IF "in_T8_window" \in DOMAIN row THEN row.in_T8_window ELSE TRUE

GetInT10Window(row) ==
    IF "in_T10_window" \in DOMAIN row THEN row.in_T10_window ELSE FALSE

\* coverage_ok: computed by the loop, read by nothing
CoverageOk(row, min_count, coverage) ==
    IF min_count # {}
    THEN \A m \in min_count : row.count_ge_T8 >= m
    ELSE IF row.n_stations > 0
         THEN 100 * row.count_ge_T8 >= coverage * row.n_stations
         ELSE 0 >= coverage

\* label_ok: computed by the loop, read by nothing
LabelOk(row) == row.recommended_signal \in {"T8", "T10"}

\* variants of Qualifying: the docstring's label condition (a), the
\* docstring's coverage condition (b), and no window condition
Qualifying_WithLabel(row, min_count, coverage, min_stations) ==
    /\ row.n_stations >= min_stations
    /\ LabelOk(row)
    /\ row.count_ge_T8 >= HKO_MIN_STATIONS
    /\ GetInT8Window(row)

Qualifying_WithCoverage(row, min_count, coverage, min_stations) ==
    /\ row.n_stations >= min_stations
    /\ CoverageOk(row, min_count, coverage)
    /\ row.count_ge_T8 >= HKO_MIN_STATIONS
    /\ GetInT8Window(row)

Qualifying_LabelOnly(row, min_count, coverage, min_stations) ==
    /\ row.n_stations >= min_stations
    /\ LabelOk(row)
    /\ CoverageOk(row, min_count, coverage)
    /\ GetInT8Window(row)

Qualifying_NoWindow(row, min_count, coverage, min_stations) ==
    /\ row.n_stations >= min_stations
    /\ row.count_ge_T8 >= HKO_MIN_STATIONS

\* variant of Qualifying: the condition "and not in_t10_window" that the
\* loop no longer has
Qualifying_ExcludeT10(row, min_count, coverage, min_stations) ==
    /\ row.n_stations >= min_stations
    /\ row.count_ge_T8 >= HKO_MIN_STATIONS
    /\ GetInT8Window(row)
    /\ ~GetInT10Window(row)

Qualifying(row, min_count, coverage, min_stations) ==
    LET has_min_stations == row.n_stations >= min_stations
        hko_standard_met == row.count_ge_T8 >= HKO_MIN_STATIONS
    IN  has_min_stations /\ hko_standard_met /\ GetInT8Window(row)

\* variant of NextRunLen: the run is not reset
NextRunLen_NoReset(run_len, qualifying) ==
    IF qualifying THEN run_len + 1 ELSE run_len

\* run_len after the loop body has handled a row
NextRunLen(run_len, qualifying) ==
    IF qualifying THEN run_len + 1 ELSE 0

\* variants of PersistenceOutputs: a strict threshold; a spike flag that
\* ignores persistence
PersistenceOutputs_Strict(run_len, qualifying, persistence_periods) ==
    LET is_persistent == qualifying /\ run_len > persistence_periods
    IN  [consecutive_periods_above_T8 |-> IF qualifying THEN run_len ELSE 0,
         persistent_T8                |-> is_persistent,
         transient_spike_T8           |-> qualifying /\ ~is_persistent]

PersistenceOutputs_SpikeAlways(run_len, qualifying, persistence_periods) ==
    LET is_persistent == qualifying /\ run_len >= persistence_periods
    IN  [consecutive_periods_above_T8 |-> IF qualifying THEN run_len ELSE 0,
         persistent_T8                |-> is_persistent,
         transient_spike_T8           |-> qualifying]

\* the three values the loop body appends for a row
PersistenceOutputs(run_len, qualifying, persistence_periods) ==
    LET is_persistent == qualifying /\ run_len >= persistence_periods
    IN  [consecutive_periods_above_T8 |-> IF qualifying THEN run_len ELSE 0,
         persistent_T8                |-> is_persistent,
         transient_spike_T8           |-> qualifying /\ ~is_persistent]

\* run_len after rows 1..k, starting from run_len = 0
RECURSIVE RunLenAfter(_, _, _, _, _)
RunLenAfter(df, k, min_count, coverage, min_stations) ==
    IF k = 0 THEN 0
    ELSE NextRunLen(RunLenAfter(df, k - 1, min_count, coverage, min_stations),
                    Qualifying(df[k], min_count, coverage, min_stations))

WithColumns(row, cols) ==
    [f \in DOMAIN row \cup DOMAIN cols |->
        IF f \in DOMAIN cols THEN cols[f] ELSE row[f]]

ComputePersistenceColumns(df, persistence_periods, min_count, coverage, min_stations) ==
    [i \in 1..Len(df) |->
        WithColumns(df[i],
            PersistenceOutputs(
                RunLenAfter(df, i, min_count, coverage, min_stations),
                Qualifying(df[i], min_count, coverage, min_stations),
                persistence_periods))]

(***************************************************************************)
(* T10 transparency and eye passage: compute_t10_transparency.             *)
(***************************************************************************)
\* area_mean_kmh < calm_mean_threshold; a NaN compares false
MeanBelow(mean, thr) == mean.den > 0 /\ mean.num < thr * mean.den

\* variant of LowWindFlag: one of the two conditions is enough
LowWindFlag_Either(area_mean_kmh, meets_t8, calm_mean_threshold) ==
    MeanBelow(area_mean_kmh, calm_mean_threshold) \/ ~meets_t8

\* (area_mean_kmh < calm_mean_threshold) & (~t10_meets_t8_coverage)
LowWindFlag(area_mean_kmh, meets_t8, calm_mean_threshold) ==
    MeanBelow(area_mean_kmh, calm_mean_threshold) /\ ~meets_t8

\* the columns of t10_df for one row
T10Row(row, calm_mean_threshold) ==
    [datetime               |-> row.datetime,
     area_mean_kmh          |-> row.area_mean_kmh,
     count_ge_T8            |-> row.count_ge_T8,
     count_ge_T10           |-> row.count_ge_T10,
     t10_meets_t8_coverage  |-> row.count_ge_T8 >= HKO_MIN_STATIONS,
     t10_meets_t10_coverage |-> row.count_ge_T10 >= HKO_MIN_STATIONS,
     t10_low_wind_flag      |-> LowWindFlag(row.area_mean_kmh,
                                    row.count_ge_T8 >= HKO_MIN_STATIONS,
                                    calm_mean_threshold)]

\* variant of InT10Rows: every row of the table
InT10Rows_All(df) == SelectSeq(df, LAMBDA row : TRUE)

\* time_df[time_df["in_T10_window"]]
InT10Rows(df) == SelectSeq(df, LAMBDA row : row.in_T10_window)

T10Df(df, calm_mean_threshold) ==
    [i \in 1..Len(InT10Rows(df)) |->
        T10Row(InT10Rows(df)[i], calm_mean_threshold)]

\* the locals of the segment loop before its first iteration
NoSegment ==
    [segments |-> <<>>, in_segment |-> FALSE, seg_start |-> {},
     seg_end |-> {}, seg_len |-> 0]

\* the dict appended to `segments`
SegmentOf(st) ==
    [segment_start    |-> CHOOSE t \in st.seg_start : TRUE,
     segment_end      |-> CHOOSE t \in st.seg_end : TRUE,
     n_calm_intervals |-> st.seg_len]

\* one iteration of `for _, row in t10_df.iterrows()`
SegmentStep(st, row) ==
    IF row.t10_low_wind_flag
    THEN IF ~st.in_segment
         THEN [st EXCEPT !.in_segment = TRUE, !.seg_start = {row.datetime},
                         !.seg_len = 1, !.seg_end = {row.datetime}]
         ELSE [st EXCEPT !.seg_len = st.seg_len + 1,
                         !.seg_end = {row.datetime}]
    ELSE IF st.in_segment
         THEN [segments |-> Append(st.segments, SegmentOf(st)),
               in_segment |-> FALSE, seg_start |-> {}, seg_end |-> {},
               seg_len |-> 0]
         ELSE st

RECURSIVE SegmentsAfter(_, _)
SegmentsAfter(t10_df, k) ==
    IF k = 0 THEN NoSegment
    ELSE SegmentStep(SegmentsAfter(t10_df, k - 1), t10_df[k])

\* variant of FlushSegment: a run still open after the loop is dropped
FlushSegment_Drop(st) == st.segments

\* `if in_segment and seg_start is not None and seg_end is not None`
FlushSegment(st) ==
    IF st.in_segment /\ st.seg_start # {} /\ st.seg_end # {}
    THEN Append(st.segments, SegmentOf(st))
    ELSE st.segments

Segments(t10_df) == FlushSegment(SegmentsAfter(t10_df, Len(t10_df)))

\* DataFrame.tail(n) and DataFrame.head(n) for n >= 0
TailRows(rows, n) ==
    SubSeq(rows, IF Len(rows) - n + 1 > 1 THEN Len(rows) - n + 1 ELSE 1,
           Len(rows))

HeadRows(rows, n) == SubSeq(rows, 1, IF n < Len(rows) THEN n ELSE Len(rows))

\* variant of PreWindow: the earliest rows before the segment
PreWindow_Head(t10_df, seg_start_dt, eye_prepost_window) ==
    HeadRows(SelectSeq(t10_df, LAMBDA row : row.datetime < seg_start_dt),
             eye_prepost_window)

\* t10_df[t10_df["datetime"] < seg_start_dt].tail(eye_prepost_window)
PreWindow(t10_df, seg_start_dt, eye_prepost_window) ==
    TailRows(SelectSeq(t10_df, LAMBDA row : row.datetime < seg_start_dt),
             eye_prepost_window)

\* t10_df[t10_df["datetime"] > seg_end_dt].head(eye_prepost_window)
PostWindow(t10_df, seg_end_dt, eye_prepost_window) ==
    HeadRows(SelectSeq(t10_df, LAMBDA row : row.datetime > seg_end_dt),
             eye_prepost_window)

\* int(window["t10_meets_t10_coverage"].sum()), and the T8 one
T10CoverageCount(window) ==
    Len(SelectSeq(window, LAMBDA row : row.t10_meets_t10_coverage))

\* variant of T8CoverageCount: every row of the window is counted
T8CoverageCount_AllRows(window) == Len(window)

T8CoverageCount(window) ==
    Len(SelectSeq(window, LAMBDA row : row.t10_meets_t8_coverage))

\* variant of QualifiesEye: coverage on one side is enough
QualifiesEye_EitherSide(pre_t10_cov, post_t10_cov, eye_min_t10_coverage_intervals) ==
    \/ pre_t10_cov >= eye_min_t10_coverage_intervals
    \/ post_t10_cov >= eye_min_t10_coverage_intervals

QualifiesEye(pre_t10_cov, post_t10_cov, eye_min_t10_coverage_intervals) ==
    /\ pre_t10_cov >= eye_min_t10_coverage_intervals
    /\ post_t10_cov >= eye_min_t10_coverage_intervals

EyeConfirmed ==
    "Eye passage confirmed: hurricane-force coverage before and after calm"

EyeNotConfirmed ==
    "Calm during T10 without sufficient surrounding hurricane-force coverage"

\* the dict appended to eye_rows for a retained segment
EyeRow(t10_df, seg, eo) ==
    LET pre_window  == PreWindow(t10_df, seg.segment_start,
                                 eo.eye_prepost_window)
        post_window == PostWindow(t10_df, seg.segment_end,
                                  eo.eye_prepost_window)
        qualifies_eye == QualifiesEye(T10CoverageCount(pre_window),
                                      T10CoverageCount(post_window),
                                      eo.eye_min_t10_coverage_intervals)
    IN  [segment_start               |-> seg.segment_start,
         segment_end                 |-> seg.segment_end,
         n_calm_intervals            |-> seg.n_calm_intervals,
         pre_window_intervals        |-> Len(pre_window),
         post_window_intervals       |-> Len(post_window),
         pre_t8_coverage_intervals   |-> T8CoverageCount(pre_window),
         post_t8_coverage_intervals  |-> T8CoverageCount(post_window),
         pre_t10_coverage_intervals  |-> T10CoverageCount(pre_window),
         post_t10_coverage_intervals |-> T10CoverageCount(post_window),
         qualifies_eye_passage       |-> qualifies_eye,
         commentary                  |-> IF qualifies_eye THEN EyeConfirmed
                                         ELSE EyeNotConfirmed]

\* eye_rows: `if n_calm < eye_min_calm_intervals: continue`
EyeRows(t10_df, eo) ==
    LET kept == SelectSeq(Segments(t10_df),
                    LAMBDA seg : seg.n_calm_intervals
                                     >= eo.eye_min_calm_intervals)
    IN  [k \in 1..Len(kept) |-> EyeRow(t10_df, kept[k], eo)]

\* pd.DataFrame(eye_rows).sort_values("segment_start")
SortedEyeRows(eye_rows) ==
    LET sorted == SortedByValue([k \in 1..Len(eye_rows) |->
                                    <<k, eye_rows[k].segment_start>>])
    IN  [k \in 1..Len(eye_rows) |-> eye_rows[sorted[k][1]]]

\* both frames empty
EmptyTransparency ==
    [returned |-> TRUE, t10_analysis |-> <<>>, eye_passage_analysis |-> <<>>]

ComputeT10Transparency(df, eo) ==
    IF Len(df) = 0 THEN EmptyTransparency
    ELSE IF "in_T10_window" \notin DOMAIN df[1] THEN EmptyTransparency
    ELSE IF Len(InT10Rows(df)) = 0 THEN EmptyTransparency
    ELSE LET t10_df == T10Df(df, eo.calm_mean_threshold)
         IN  [returned             |-> TRUE,
              t10_analysis         |-> t10_df,
              eye_passage_analysis |-> SortedEyeRows(EyeRows(t10_df, eo))]

(***************************************************************************)
(* Export: parse_time_summary.                                             *)
(***************************************************************************)
\* df[df["n_stations"] <= 8]
ReferenceRows(df) ==
    SelectSeq(df, LAMBDA r : r.n_stations <= REFERENCE_STATIONS)

ParseTimeSummary(df) ==
    LET df_filtered == IF ReferenceRows(df) = <<>> THEN df
                       ELSE ReferenceRows(df)
        persistent  == SelectSeq(df_filtered, LAMBDA r : r.persistent_T8)
    IN  IF Len(persistent) = 0
        THEN [detected |-> FALSE, duration_min |-> 0]
        ELSE [detected     |-> TRUE,
              start        |-> persistent[1].datetime,
              end          |-> persistent[Len(persistent)].datetime,
              duration_min |-> Len(persistent) * 10]

(***************************************************************************)
(* Export: detect_pattern_validated.                                       *)
(***************************************************************************)
\* variant of WindowDf: the end of the window is excluded
WindowDf_EndExclusive(df, official_start, official_end) ==
    SelectSeq(ReferenceRows(df),
              LAMBDA r : /\ \A t \in official_start : r.datetime >= t
                         /\ \A t \in official_end : r.datetime < t)

\* window_df: the reference rows stamped inside [official_start, official_end]
WindowDf(df, official_start, official_end) ==
    SelectSeq(ReferenceRows(df),
              LAMBDA r : /\ \A t \in official_start : r.datetime >= t
                         /\ \A t \in official_end : r.datetime <= t)

\* meets = window_df["count_ge_T8"] >= 4
Meets(window_df) ==
    [i \in 1..Len(window_df) |-> window_df[i].count_ge_T8 >= HKO_MIN_STATIONS]

\* variant of PatternEarlyReturn: no exclusion of persistent windows
PatternEarlyReturn_NoExclusion(df, official_start, official_end) ==
    LET window_df == WindowDf(df, official_start, official_end)
    IN  IF official_start = {} \/ official_end = {} THEN "False"
        ELSE IF Len(window_df) = 0 THEN "False"
        ELSE "scan"

\* the returns taken before the scan: "scan" when none is taken
PatternEarlyReturn(df, official_start, official_end) ==
    LET window_df == WindowDf(df, official_start, official_end)
    IN  IF official_start = {} \/ official_end = {} THEN "False"
        ELSE IF Len(window_df) = 0 THEN "False"
        ELSE IF \E i \in 1..Len(window_df) : window_df[i].persistent_T8
             THEN "False"
        ELSE "scan"

\* variants of PatternStep: a short lull restarts the whole scan; lulls
\* before the first met interval are counted; a lull of 1 is enough
PatternStep_Restart(st, meets_flag) ==
    IF meets_flag
    THEN IF st.initial_met /\ st.calm_run >= 2
         THEN [st EXCEPT !.returned = TRUE]
         ELSE [st EXCEPT !.initial_met = (st.calm_run = 0), !.calm_run = 0]
    ELSE IF st.initial_met
         THEN [st EXCEPT !.calm_run = st.calm_run + 1]
         ELSE st

PatternStep_LeadingLull(st, meets_flag) ==
    IF meets_flag
    THEN IF st.calm_run >= 2
         THEN [st EXCEPT !.returned = TRUE]
         ELSE [st EXCEPT !.initial_met = TRUE, !.calm_run = 0]
    ELSE [st EXCEPT !.calm_run = st.calm_run + 1]

\* variant of PatternStep: the return comes one iteration after the cycle
PatternStep_LateReturn(st, meets_flag) ==
    IF st.calm_run = -1 THEN [st EXCEPT !.returned = TRUE]
    ELSE IF meets_flag
    THEN IF st.initial_met /\ st.calm_run >= 2
         THEN [st EXCEPT !.calm_run = -1]
         ELSE [st EXCEPT !.initial_met = TRUE, !.calm_run = 0]
    ELSE IF st.initial_met
         THEN [st EXCEPT !.calm_run = st.calm_run + 1]
         ELSE st

\* one iteration of `for meets_flag in meets.tolist()`
PatternStep(st, meets_flag) ==
    IF meets_flag
    THEN IF st.initial_met /\ st.calm_run >= 2
         THEN [st EXCEPT !.returned = TRUE]
         ELSE [st EXCEPT !.initial_met = TRUE, !.calm_run = 0]
    ELSE IF st.initial_met
         THEN [st EXCEPT !.calm_run = st.calm_run + 1]
         ELSE st

(***************************************************************************)
(* Export: the tier of generate_event_json.                                *)
(***************************************************************************)
\* variant of VerificationTier: the pattern result is looked at first
VerificationTier_PatternFirst(official_signal8_start, detected, pattern) ==
    IF official_signal8_start = {} THEN "no_signal"
    ELSE IF pattern THEN "pattern_validated"
    ELSE IF detected THEN "verified"
    ELSE "unverified"

VerificationTier(official_signal8_start, detected, pattern) ==
    IF official_signal8_start = {} THEN "no_signal"
    ELSE IF detected THEN "verified"
    ELSE IF pattern THEN "pattern_validated"
    ELSE "unverified"

(***************************************************************************)
(* Audit tool: tools/validate_pattern_detection.analyze_event.             *)
(***************************************************************************)
\* detect_pattern_validated run to its return value
RECURSIVE PatternScanFrom(_, _, _)
PatternScanFrom(st, meets, k) ==
    IF k > Len(meets) THEN FALSE
    ELSE LET after == PatternStep(st, meets[k])
         IN  IF after.returned THEN TRUE
             ELSE PatternScanFrom(after, meets, k + 1)

PatternScanStart == [initial_met |-> FALSE, calm_run |-> 0, returned |-> FALSE]

DetectPatternValidated(exists, df, official_start, official_end) ==
    IF ~exists THEN FALSE
    ELSE IF PatternEarlyReturn(df, official_start, official_end) = "False"
    THEN FALSE
    ELSE PatternScanFrom(PatternScanStart,
                         Meets(WindowDf(df, official_start, official_end)), 1)

\* the window of _raw_pattern_possible and _short_pattern: every row
\* stamped inside the official window; no row when a bound is None
AuditWindowDf(df, meta) ==
    IF meta.official_signal8_start = {} \/ meta.official_signal8_end = {}
    THEN <<>>
    ELSE SelectSeq(df,
             LAMBDA r : /\ \A t \in meta.official_signal8_start : r.datetime >= t
                        /\ \A t \in meta.official_signal8_end : r.datetime <= t)

\* _raw_pattern_possible: the same scan, persistence not excluded
RawPatternPossible(df, meta) ==
    LET window_df == AuditWindowDf(df, meta)
    IN  IF Len(window_df) = 0 THEN FALSE
        ELSE PatternScanFrom(PatternScanStart, Meets(window_df), 1)

\* one iteration of the loop of _short_pattern; first and second are the
\* lengths of first_indices and second_indices
ShortPatternStep(st, flag) ==
    IF st.state = "pre"
    THEN IF flag THEN [st EXCEPT !.first = @ + 1]
         ELSE IF st.first > 0
              THEN [st EXCEPT !.state = "lull", !.calm_run = 1]
              ELSE st
    ELSE IF st.state = "lull"
    THEN IF ~flag THEN [st EXCEPT !.calm_run = @ + 1]
         ELSE IF st.calm_run >= 2
              THEN [st EXCEPT !.state = "post", !.second = @ + 1]
              ELSE [st EXCEPT !.state = "pre", !.first = 0]
    ELSE IF flag THEN [st EXCEPT !.second = @ + 1]
         ELSE [st EXCEPT !.state = "break"]

RECURSIVE ShortPatternFrom(_, _, _)
ShortPatternFrom(st, meets_list, k) ==
    IF k > Len(meets_list) \/ st.state = "break" THEN st
    ELSE ShortPatternFrom(ShortPatternStep(st, meets_list[k]), meets_list, k + 1)

\* _short_pattern
ShortPattern(df, meta) ==
    LET wdf == AuditWindowDf(df, meta)
        st  == ShortPatternFrom([state |-> "pre", calm_run |-> 0,
                                 first |-> 0, second |-> 0], Meets(wdf), 1)
    IN  IF Len(wdf) = 0 THEN FALSE
        ELSE st.first = 1 \/ st.second = 1

MissingCsvNote == "time_summary.csv missing"

ConflictNote == "pattern + persistence simultaneously satisfied but classification not verified"

ShortPatternNote == "short pre/post segment (potential borderline pattern)"

\* "Determine classification consistent with export script"
AuditClassification(official_signal8_start, persistent_detected, pattern_detected) ==
    IF official_signal8_start = {} THEN "no_signal"
    ELSE IF persistent_detected THEN "verified"
    ELSE IF pattern_detected THEN "pattern_validated"
    ELSE "unverified"

\* the record analyze_event returns; notes is the list of its parts
AnalyzeEventRecord(exists, df, meta) ==
    LET persistent_detected == \E i \in 1..Len(df) : df[i].persistent_T8
        pattern_flag ==
            DetectPatternValidated(exists, df, meta.official_signal8_start,
                                   meta.official_signal8_end)
        classification ==
            AuditClassification(meta.official_signal8_start,
                                persistent_detected, pattern_flag)
        conflict == /\ persistent_detected
                    /\ RawPatternPossible(df, meta)
                    /\ classification # "verified"
        short == classification = "pattern_validated" /\ ShortPattern(df, meta)
    IN  IF ~exists
        THEN [returned |-> TRUE, persistent_detected |-> FALSE,
              pattern_detected |-> FALSE, classification |-> "unverified",
              conflict |-> FALSE, notes |-> <<MissingCsvNote>>,
              csv_exists |-> FALSE]
        ELSE [returned |-> TRUE, persistent_detected |-> persistent_detected,
              pattern_detected |-> pattern_flag,
              classification |-> classification,
              conflict |-> conflict,
              notes |-> (IF conflict THEN <<ConflictNote>> ELSE <<>>)
                        \o (IF short THEN <<ShortPatternNote>> ELSE <<>>),
              csv_exists |-> TRUE]

(***************************************************************************)
(* Inputs of the analysis run.                                             *)
(***************************************************************************)
\* station speeds of one timestamp: 4 of 8 at/above T8 (area mean 45);
\* 3 of 8 at/above T8 and one just below; 4 of 4 exactly at T8
SpeedGroups ==
    { <<70, 70, 70, 70, 20, 20, 20, 20>>,
      <<63, 63, 63, 62, 20, 20, 20, 20>>,
      <<63, 63, 63, 63>> }

\* command-line options: min_count {} is None; coverage and percentile in %
MethodChoices ==
    { [method |-> "coverage",   min_count |-> {4}, coverage |-> 40,
       percentile |-> 50, min_stations |-> 5],
      [method |-> "coverage",   min_count |-> {},  coverage |-> 60,
       percentile |-> 50, min_stations |-> 4],
      [method |-> "mean",       min_count |-> {5}, coverage |-> 40,
       percentile |-> 50, min_stations |-> 4] }

\* --signal-times: absent, Signal 8 only, Signal 8 with a nested Signal 10
NoTiming == [given |-> FALSE]

TimingChoices ==
    { NoTiming,
      [given |-> TRUE, signal8_start |-> 2, signal8_end |-> 5,
       has_signal10 |-> FALSE],
      [given |-> TRUE, signal8_start |-> 2, signal8_end |-> 5,
       has_signal10 |-> TRUE, signal10_start |-> 3, signal10_end |-> 4] }

(***************************************************************************)
(* State.                                                                  *)
(***************************************************************************)
VARIABLES
    opts,               \* Options of the analysis run
    timing,             \* parsed --signal-times
    time_df,            \* the per-timestamp table
    pc,                 \* position in main / generate_event_json
    event_meta,         \* export: the event's metadata
    algo_detection,     \* export: result of parse_time_summary
    scan,               \* export: locals of detect_pattern_validated
    pattern_validated,  \* export: result of detect_pattern_validated
    verification_tier,  \* export: the tier
    speeds_kmh,         \* classifier: the speeds of one timestamp
    rec,                \* classifier: what _decide_signal_for_snapshot returned
    obs,                \* aggregator: the observation table (datetime, mean_kmh)
    eye_opts,           \* transparency: the eye-passage options
    transparency,       \* transparency: what compute_t10_transparency returned
    csv_exists,         \* export: time_summary.csv is on disk
    caller_df,          \* persistence: the table object the caller passed in
    record,             \* audit: the record analyze_event returns
    results,            \* verifier: the (timestamp, count) list
    current_window,     \* verifier: local of find_persistence_windows
    windows,            \* verifier: local of find_persistence_windows
    track_forecast,     \* forecast: qualifying_count of each forecast point
    consecutive_count,  \* forecast: local of check_persistence
    loop_i              \* verifier / forecast: position of the loop

vars == <<opts, timing, time_df, pc, event_meta, algo_detection, scan,
          pattern_validated, verification_tier, speeds_kmh, rec, obs,
          eye_opts, transparency, csv_exists, caller_df, record, results,
          current_window, windows, track_forecast, consecutive_count, loop_i>>

toolVars == <<caller_df, record, results, current_window, windows,
              track_forecast, consecutive_count, loop_i>>

NoTools ==
    /\ caller_df = [columns |-> {}, rows |-> <<>>]
    /\ record = [returned |-> FALSE]
    /\ results = <<>>
    /\ current_window = {}
    /\ windows = <<>>
    /\ track_forecast = <<>>
    /\ consecutive_count = 0
    /\ loop_i = 0

snapshotVars == <<speeds_kmh, rec, obs>>

NoSnapshot ==
    /\ speeds_kmh = <<>>
    /\ rec = "unset"
    /\ obs = <<>>

transparencyVars == <<eye_opts, transparency>>

\* the defaults of parse_args for the eye-passage options
DefaultEyeOptions ==
    [calm_mean_threshold |-> 25, eye_min_calm_intervals |-> 2,
     eye_prepost_window |-> 6, eye_min_t10_coverage_intervals |-> 2]

NoTransparency ==
    /\ eye_opts = DefaultEyeOptions
    /\ transparency = [returned |-> FALSE]

exportVars == <<event_meta, algo_detection, scan, pattern_validated,
                verification_tier>>

NoEvent == [official_signal8_start |-> {}, official_signal8_end |-> {}]

NoDetection == [detected |-> FALSE]

NoScan == [invoked |-> FALSE]

(***************************************************************************)
(* analyze_typhoon.main                                                    *)
(***************************************************************************)
Init ==
    /\ \E m \in MethodChoices, p \in 1..MaxPeriods :
          opts = [method              |-> m.method,
                  min_count           |-> m.min_count,
                  coverage            |-> m.coverage,
                  percentile          |-> m.percentile,
                  min_stations        |-> m.min_stations,
                  persistence_periods |-> p]
    /\ timing \in TimingChoices
    /\ time_df = <<>>
    /\ pc = "summarize"
    /\ NoSnapshot
    /\ NoTransparency
    /\ NoTools
    /\ csv_exists = FALSE
    /\ event_meta = NoEvent
    /\ algo_detection = NoDetection
    /\ scan = NoScan
    /\ pattern_validated = FALSE
    /\ verification_tier = "none"

\* one iteration of `for ts, g in df.groupby("datetime", sort=True)`
SummarizeOverTime ==
    /\ pc = "summarize"
    /\ Len(time_df) < MaxRows
    /\ \E speeds \in SpeedGroups :
          time_df' = Append(time_df,
                            SummarizeRow(Len(time_df) + 1, speeds, opts))
    /\ UNCHANGED <<toolVars, transparencyVars, csv_exists, snapshotVars, opts, timing, pc, exportVars>>

\* the loop has built no row: sort_values("datetime") raises KeyError
SortValuesRaises ==
    /\ pc = "summarize"
    /\ Len(time_df) = 0
    /\ pc' = "KeyError"
    /\ UNCHANGED <<toolVars, transparencyVars, csv_exists, snapshotVars, opts, timing, time_df, exportVars>>

\* "Annotate (do not filter) official windows if provided"
Annotate ==
    /\ pc = "summarize"
    /\ Len(time_df) > 0
    /\ time_df' = AnnotateWindows(time_df, timing)
    /\ pc' = "persistence"
    /\ UNCHANGED <<toolVars, transparencyVars, csv_exists, snapshotVars, opts, timing, exportVars>>

\* time_df = compute_persistence_columns(time_df, ...)
Persistence ==
    /\ pc = "persistence"
    /\ time_df' = ComputePersistenceColumns(time_df, opts.persistence_periods,
                       opts.min_count, opts.coverage, opts.min_stations)
    /\ pc' = "written"
    /\ csv_exists' = TRUE
    /\ UNCHANGED <<toolVars, transparencyVars, snapshotVars, opts, timing, exportVars>>

Next == SummarizeOverTime \/ SortValuesRaises \/ Annotate \/ Persistence

Spec == Init /\ [][Next]_vars

(***************************************************************************)
(* export_web_data.generate_event_json, run on a time_summary.csv that     *)
(* analyze_typhoon.main has written.                                       *)
(***************************************************************************)
\* station speeds of one timestamp: 4 of 8 at/above T8; 3 of 8 at/above
\* T8; 5 of 9 at/above T8 (a timestamp with more than the 8 reference
\* stations)
ExportSpeedGroups ==
    { <<70, 70, 70, 70, 20, 20, 20, 20>>,
      <<63, 63, 63, 62, 20, 20, 20, 20>>,
      <<70, 70, 70, 70, 70, 20, 20, 20, 20>> }

\* the analysis run's --signal-times and the export's event metadata
\* ({} is None): no Signal 8; the same window in both, with a Signal 10
\* that lasts to the end of the Signal 8; an analysis run without
\* --signal-times for an event with Signal 8 over slots 1..4, 1..6
ExportScenarios ==
    { [timing |-> NoTiming,
       event  |-> [official_signal8_start |-> {}, official_signal8_end |-> {}]],
      [timing |-> [given |-> TRUE, signal8_start |-> 2, signal8_end |-> 5,
                   has_signal10 |-> TRUE, signal10_start |-> 4,
                   signal10_end |-> 5],
       event  |-> [official_signal8_start |-> {2},
                   official_signal8_end |-> {5}]],
      [timing |-> NoTiming,
       event  |-> [official_signal8_start |-> {1},
                   official_signal8_end |-> {4}]],
      [timing |-> NoTiming,
       event  |-> [official_signal8_start |-> {1},
                   official_signal8_end |-> {6}]] }

\* --persistence-periods of the analysis run: the default 3, or 2
ExportPeriods == {2, 3}

ExportOptions(p) ==
    [method |-> "coverage", min_count |-> {4}, coverage |-> 40,
     percentile |-> 50, min_stations |-> 5, persistence_periods |-> p]

\* the table main writes for the groups g[1], g[2], ... of the timestamps
WrittenTable(g, o, t) ==
    ComputePersistenceColumns(
        AnnotateWindows([i \in DOMAIN g |-> SummarizeRow(i, g[i], o)], t),
        o.persistence_periods, o.min_count, o.coverage, o.min_stations)

InitExport ==
    /\ \/ /\ csv_exists = TRUE
          /\ \E p \in ExportPeriods, sc \in ExportScenarios, n \in 0..MaxRows :
                \E g \in [1..n -> ExportSpeedGroups] :
                    /\ opts = ExportOptions(p)
                    /\ timing = sc.timing
                    /\ event_meta = sc.event
                    /\ time_df = WrittenTable(g, opts, timing)
       \/ /\ csv_exists = FALSE
          /\ \E p \in ExportPeriods, sc \in ExportScenarios :
                    /\ opts = ExportOptions(p)
                    /\ timing = sc.timing
                    /\ event_meta = sc.event
                    /\ time_df = <<>>
    /\ pc = "export"
    /\ NoSnapshot
    /\ NoTransparency
    /\ NoTools
    /\ algo_detection = NoDetection
    /\ scan = NoScan
    /\ pattern_validated = FALSE
    /\ verification_tier = "none"

\* algo_detection = parse_time_summary(time_summary_path)
ParseSummary ==
    /\ pc = "export"
    /\ algo_detection' = IF csv_exists THEN ParseTimeSummary(time_df)
                         ELSE [detected |-> FALSE, duration_min |-> 0]
    /\ pc' = "parsed"
    /\ UNCHANGED <<toolVars, transparencyVars, csv_exists, snapshotVars, opts, timing, time_df, event_meta, scan, pattern_validated,
                   verification_tier>>

\* `if not event_meta["official_signal8_start"]`: the tier is no_signal
TierNoSignal ==
    /\ pc = "parsed"
    /\ event_meta.official_signal8_start = {}
    /\ verification_tier' =
          VerificationTier(event_meta.official_signal8_start,
                           algo_detection.detected, pattern_validated)
    /\ pc' = "done"
    /\ UNCHANGED <<toolVars, transparencyVars, csv_exists, snapshotVars, opts, timing, time_df, event_meta, algo_detection, scan,
                   pattern_validated>>

\* the call of detect_pattern_validated, up to the start of its scan
DetectPatternEnter ==
    /\ pc = "parsed"
    /\ event_meta.official_signal8_start # {}
    /\ LET early == IF csv_exists
                    THEN PatternEarlyReturn(time_df,
                             event_meta.official_signal8_start,
                             event_meta.official_signal8_end)
                    ELSE "False"
           window_df == WindowDf(time_df, event_meta.official_signal8_start,
                                 event_meta.official_signal8_end)
       IN  IF early = "scan"
           THEN /\ scan' = [invoked |-> TRUE, meets |-> Meets(window_df),
                            idx |-> 1, initial_met |-> FALSE, calm_run |-> 0,
                            returned |-> FALSE]
                /\ pc' = "scan"
                /\ UNCHANGED pattern_validated
           ELSE /\ scan' = [invoked |-> TRUE]
                /\ pattern_validated' = FALSE
                /\ pc' = "resolve"
    /\ UNCHANGED <<toolVars, transparencyVars, csv_exists, snapshotVars, opts, timing, time_df, event_meta, algo_detection,
                   verification_tier>>

\* one iteration of the scan; `return True` ends it
PatternScanStep ==
    /\ pc = "scan"
    /\ scan.idx <= Len(scan.meets)
    /\ LET st == PatternStep(scan, scan.meets[scan.idx])
       IN  IF st.returned
           THEN /\ scan' = st
                /\ pattern_validated' = TRUE
                /\ pc' = "resolve"
           ELSE /\ scan' = [st EXCEPT !.idx = scan.idx + 1]
                /\ UNCHANGED <<pattern_validated, pc>>
    /\ UNCHANGED <<toolVars, transparencyVars, csv_exists, snapshotVars, opts, timing, time_df, event_meta, algo_detection,
                   verification_tier>>

\* the list is exhausted: `return False`
PatternScanEnd ==
    /\ pc = "scan"
    /\ scan.idx > Len(scan.meets)
    /\ pattern_validated' = FALSE
    /\ pc' = "resolve"
    /\ UNCHANGED <<toolVars, transparencyVars, csv_exists, snapshotVars, opts, timing, time_df, event_meta, algo_detection, scan,
                   verification_tier>>

\* `if algo_detection["detected"] ... elif pattern_validated ... else`
ResolveTier ==
    /\ pc = "resolve"
    /\ verification_tier' =
          VerificationTier(event_meta.official_signal8_start,
                           algo_detection.detected, pattern_validated)
    /\ pc' = "done"
    /\ UNCHANGED <<toolVars, transparencyVars, csv_exists, snapshotVars, opts, timing, time_df, event_meta, algo_detection, scan,
                   pattern_validated>>

\* the audit tool run on the same event: rec = analyze_event(event_id, meta)
AnalyzeEvent ==
    /\ pc = "done"
    /\ record' = AnalyzeEventRecord(csv_exists, time_df, event_meta)
    /\ pc' = "audited"
    /\ UNCHANGED <<caller_df, results, current_window, windows, track_forecast,
                   consecutive_count, loop_i, transparencyVars, csv_exists,
                   snapshotVars, opts, timing, time_df, exportVars>>

NextExport ==
    \/ ParseSummary
    \/ TierNoSignal
    \/ DetectPatternEnter
    \/ PatternScanStep
    \/ PatternScanEnd
    \/ ResolveTier
    \/ AnalyzeEvent

SpecExport == InitExport /\ [][NextExport]_vars

(***************************************************************************)
(* _decide_signal_for_snapshot on its own: one call on the speeds of one   *)
(* timestamp under one configuration.                                      *)
(***************************************************************************)
MaxStations == 3

\* speeds on both sides of the rungs of the ladder, and a missing reading
SpeedValues == {NaN, 20, 41, 63, 118}

SpeedArrays == UNION {[1..n -> SpeedValues] : n \in 0..MaxStations}

\* values of --coverage, in percent
CoverageFractions == {40, 60}

\* (method, coverage, percentile, min_count) as parse_args lets them through
ClassifierChoices ==
    {[method |-> "coverage", coverage |-> c, percentile |-> 50,
      min_count |-> {}] : c \in CoverageFractions}
    \cup {[method |-> "coverage", coverage |-> c, percentile |-> 50,
           min_count |-> {m}] : c \in CoverageFractions, m \in 1..2}
    \cup {[method |-> "percentile", coverage |-> 40, percentile |-> q,
           min_count |-> {}] : q \in {50, 90}}
    \cup {[method |-> "mean", coverage |-> 40, percentile |-> 50,
           min_count |-> {}]}

\* a method name outside AGGREGATION_METHODS, passed by a direct call
UnknownMethodChoice ==
    [method |-> "median", coverage |-> 40, percentile |-> 50,
     min_count |-> {}, min_stations |-> 2]

InitClassify ==
    /\ \E m \in ClassifierChoices \cup {UnknownMethodChoice} :
          opts = [method              |-> m.method,
                  min_count           |-> m.min_count,
                  coverage            |-> m.coverage,
                  percentile          |-> m.percentile,
                  min_stations        |-> 1,
                  persistence_periods |-> 1]
    /\ speeds_kmh \in SpeedArrays
    /\ rec = "unset"
    /\ obs = <<>>
    /\ pc = "classify"
    /\ NoTransparency
    /\ NoTools
    /\ csv_exists = FALSE
    /\ timing = NoTiming
    /\ time_df = <<>>
    /\ event_meta = NoEvent
    /\ algo_detection = NoDetection
    /\ scan = NoScan
    /\ pattern_validated = FALSE
    /\ verification_tier = "none"

\* rec = _decide_signal_for_snapshot(speeds, thresholds_kmh, method, ...)
DecideSignal ==
    /\ pc = "classify"
    /\ LET result == DecideSignalForSnapshot(speeds_kmh,
                         DEFAULT_THRESHOLDS_KMH, opts.method, opts.coverage,
                         opts.percentile, opts.min_count)
       IN  IF result = "ValueError"
           THEN pc' = "ValueError" /\ UNCHANGED rec
           ELSE pc' = "classified" /\ rec' = result
    /\ UNCHANGED <<toolVars, transparencyVars, csv_exists, speeds_kmh, obs, opts, timing, time_df, exportVars>>

NextClassify == DecideSignal

SpecClassify == InitClassify /\ [][NextClassify]_vars

(***************************************************************************)
(* summarize_over_time on its own: one call on an observation table.       *)
(***************************************************************************)
MaxObs == 3

ObsTimestamps == {1, 2}

ObsSpeeds == {NaN, 20, 63}

\* the rows (datetime, mean_kmh) of the observation table
ObsRows == [datetime : ObsTimestamps, mean_kmh : ObsSpeeds]

ObsTables == UNION {[1..n -> ObsRows] : n \in 0..MaxObs}

\* (method, coverage, percentile, min_count, min_stations)
SummarizeChoices ==
    {[method |-> "coverage", coverage |-> 40, percentile |-> 50,
      min_count |-> {}, min_stations |-> n] : n \in 1..2}
    \cup {[method |-> "coverage", coverage |-> 60, percentile |-> 50,
           min_count |-> {2}, min_stations |-> 1],
          [method |-> "percentile", coverage |-> 40, percentile |-> 90,
           min_count |-> {}, min_stations |-> 2],
          [method |-> "mean", coverage |-> 40, percentile |-> 50,
           min_count |-> {}, min_stations |-> 1]}

SummarizeOptions(m) ==
    [method              |-> m.method,
     min_count           |-> m.min_count,
     coverage            |-> m.coverage,
     percentile          |-> m.percentile,
     min_stations        |-> m.min_stations,
     persistence_periods |-> 1]

InitSummarize ==
    /\ \E m \in SummarizeChoices \cup {UnknownMethodChoice} :
          opts = SummarizeOptions(m)
    /\ obs \in ObsTables
    /\ speeds_kmh = <<>>
    /\ rec = "unset"
    /\ pc = "observations"
    /\ NoTransparency
    /\ NoTools
    /\ csv_exists = FALSE
    /\ timing = NoTiming
    /\ time_df = <<>>
    /\ event_meta = NoEvent
    /\ algo_detection = NoDetection
    /\ scan = NoScan
    /\ pattern_validated = FALSE
    /\ verification_tier = "none"

\* time_df = summarize_over_time(df, ...) returns
SummarizeObservations ==
    /\ pc = "observations"
    /\ ~ClassifierValueError(obs, opts)
    /\ ~SortValuesKeyError(obs, opts)
    /\ time_df' = SummarizeOverTimeDf(obs, opts)
    /\ pc' = "summarized"
    /\ UNCHANGED <<toolVars, transparencyVars, csv_exists, snapshotVars, opts, timing, exportVars>>

\* summarize_over_time(df, ...) raises
SummarizeRaises ==
    /\ pc = "observations"
    /\ \/ ClassifierValueError(obs, opts) /\ pc' = "ValueError"
       \/ SortValuesKeyError(obs, opts) /\ pc' = "KeyError"
    /\ UNCHANGED <<toolVars, transparencyVars, csv_exists, snapshotVars, opts, timing, time_df, exportVars>>

NextSummarize == SummarizeObservations \/ SummarizeRaises

SpecSummarize == InitSummarize /\ [][NextSummarize]_vars

(***************************************************************************)
(* main from the persistence columns to the transparency frames: the call  *)
(* of compute_t10_transparency on the annotated table.                     *)
(***************************************************************************)
MaxEyeRows == 6

\* station speeds of one timestamp: calm (mean 20); hurricane force at 4
\* stations; mean exactly 25 and nothing at T8; 4 of 11 stations at T8
\* with a mean below 25
EyeSpeedGroups ==
    { <<20, 20, 20, 20>>,
      <<118, 118, 118, 118>>,
      <<25, 25, 25, 25>>,
      <<63, 63, 63, 63, 0, 0, 0, 0, 0, 0, 0>> }

\* --signal-times with a Signal 10 window: over every row; over rows 2..3;
\* and one that ends after the Signal 8 window
T10Everywhere ==
    [given |-> TRUE, signal8_start |-> 0, signal8_end |-> 9,
     has_signal10 |-> TRUE, signal10_start |-> 0, signal10_end |-> 9]

T10Inner ==
    [given |-> TRUE, signal8_start |-> 1, signal8_end |-> 9,
     has_signal10 |-> TRUE, signal10_start |-> 2, signal10_end |-> 3]

T10NotNested ==
    [given |-> TRUE, signal8_start |-> 2, signal8_end |-> 3,
     has_signal10 |-> TRUE, signal10_start |-> 3, signal10_end |-> 6]

\* the tables: up to MaxEyeRows rows under the wide Signal 10 window, up
\* to 4 rows under the others
EyeScenarios ==
    {[timing |-> T10Everywhere, rows |-> MaxEyeRows]}
    \cup {[timing |-> t, rows |-> 4] :
              t \in TimingChoices \cup {T10Inner, T10NotNested}}

\* the eye-passage options: the defaults, two smaller settings, and one
\* that asks for no Signal 10 coverage around the calm
EyeOptionChoices ==
    { DefaultEyeOptions,
      [calm_mean_threshold |-> 25, eye_min_calm_intervals |-> 1,
       eye_prepost_window |-> 1, eye_min_t10_coverage_intervals |-> 1],
      [calm_mean_threshold |-> 25, eye_min_calm_intervals |-> 3,
       eye_prepost_window |-> 2, eye_min_t10_coverage_intervals |-> 2],
      [calm_mean_threshold |-> 25, eye_min_calm_intervals |-> 2,
       eye_prepost_window |-> 2, eye_min_t10_coverage_intervals |-> 0] }

InitEye ==
    /\ \E sc \in EyeScenarios :
          \E n \in 1..sc.rows :
              \E g \in [1..n -> EyeSpeedGroups] :
                  /\ opts = ExportOptions(3)
                  /\ timing = sc.timing
                  /\ time_df = WrittenTable(g, opts, timing)
    /\ eye_opts \in EyeOptionChoices
    /\ transparency = [returned |-> FALSE]
    /\ pc = "transparency"
    /\ NoTools
    /\ csv_exists = FALSE
    /\ NoSnapshot
    /\ event_meta = NoEvent
    /\ algo_detection = NoDetection
    /\ scan = NoScan
    /\ pattern_validated = FALSE
    /\ verification_tier = "none"

\* `if timing and "signal10_start" in timing and "signal10_end" in timing`
HasSignal10(t) == t.given /\ t.has_signal10

\* transparency = compute_t10_transparency(time_df, ...)
TransparencyComputed ==
    /\ pc = "transparency"
    /\ HasSignal10(timing)
    /\ transparency' = ComputeT10Transparency(time_df, eye_opts)
    /\ pc' = "reported"
    /\ UNCHANGED <<toolVars, eye_opts, csv_exists, snapshotVars, opts, timing, time_df,
                   exportVars>>

\* the else branch: both frames empty
TransparencySkipped ==
    /\ pc = "transparency"
    /\ ~HasSignal10(timing)
    /\ transparency' = EmptyTransparency
    /\ pc' = "reported"
    /\ UNCHANGED <<toolVars, eye_opts, csv_exists, snapshotVars, opts, timing, time_df,
                   exportVars>>

NextEye == TransparencyComputed \/ TransparencySkipped

SpecEye == InitEye /\ [][NextEye]_vars

(***************************************************************************)
(* compute_persistence_columns on its own: one call on a table object the  *)
(* caller holds.  A table object is its column names and its rows.         *)
(***************************************************************************)
MaxCallRows == 3

\* the three columns the function adds
PersistenceColumnNames ==
    {"consecutive_periods_above_T8", "persistent_T8", "transient_spike_T8"}

\* the column names of a table: those of its rows, or `empty_columns`
\* when it has no row
ColumnsOf(rows, empty_columns) ==
    IF Len(rows) = 0 THEN empty_columns ELSE DOMAIN rows[1]

\* a table without rows: pd.DataFrame(), or one that kept its header
EmptyTableColumns ==
    { {}, {"datetime", "n_stations", "count_ge_T8", "recommended_signal"} }

InitPersistence ==
    /\ \E m \in MethodChoices, p \in 1..MaxPeriods :
          opts = [method              |-> m.method,
                  min_count           |-> m.min_count,
                  coverage            |-> m.coverage,
                  percentile          |-> m.percentile,
                  min_stations        |-> m.min_stations,
                  persistence_periods |-> p]
    /\ timing \in TimingChoices
    /\ \E n \in 0..MaxCallRows, ec \in EmptyTableColumns :
          \E g \in [1..n -> SpeedGroups] :
              LET rows == AnnotateWindows(
                              [i \in 1..n |-> SummarizeRow(i, g[i], opts)],
                              timing)
              IN  caller_df = [columns |-> ColumnsOf(rows, ec), rows |-> rows]
    /\ time_df = <<>>
    /\ pc = "call"
    /\ record = [returned |-> FALSE]
    /\ results = <<>>
    /\ current_window = {}
    /\ windows = <<>>
    /\ track_forecast = <<>>
    /\ consecutive_count = 0
    /\ loop_i = 0
    /\ NoSnapshot
    /\ NoTransparency
    /\ csv_exists = FALSE
    /\ event_meta = NoEvent
    /\ algo_detection = NoDetection
    /\ scan = NoScan
    /\ pattern_validated = FALSE
    /\ verification_tier = "none"

\* `if time_df.empty`: the columns are created on the table passed in,
\* and that table is what is returned
PersistenceOfEmptyTable ==
    /\ pc = "call"
    /\ Len(caller_df.rows) = 0
    /\ caller_df' = [caller_df EXCEPT
                        !.columns = @ \cup PersistenceColumnNames]
    /\ time_df' = caller_df.rows
    /\ pc' = "returned"
    /\ UNCHANGED <<record, results, current_window, windows, track_forecast,
                   consecutive_count, loop_i, transparencyVars, csv_exists,
                   snapshotVars, opts, timing, exportVars>>

\* `df = time_df.copy()`: the columns are assigned on the copy
PersistenceOfCopy ==
    /\ pc = "call"
    /\ Len(caller_df.rows) > 0
    /\ time_df' = ComputePersistenceColumns(caller_df.rows,
                       opts.persistence_periods, opts.min_count,
                       opts.coverage, opts.min_stations)
    /\ pc' = "returned"
    /\ UNCHANGED <<toolVars, transparencyVars, csv_exists, snapshotVars, opts,
                   timing, exportVars>>

NextPersistence == PersistenceOfEmptyTable \/ PersistenceOfCopy

SpecPersistence == InitPersistence /\ [][NextPersistence]_vars

(***************************************************************************)
(* verify_talim_tier: the independent check of the persistence criterion,  *)
(* run on the station readings of the timestamps a written table covers.   *)
(***************************************************************************)
MaxVerifyRows == 6

T8_THRESHOLD_KMH == 63

MIN_REFERENCE_STATIONS == 4

MIN_PERSISTENCE_INTERVALS == 3

\* count_stations_meeting_threshold: a reading of None is not counted
CountStationsMeetingThreshold(station_winds) ==
    Len(SelectSeq(station_winds,
                  LAMBDA wind : wind # NaN /\ wind >= T8_THRESHOLD_KMH))

\* variant of CloseWindow: a window needs more than the minimum length
CloseWindow_Strict(ws, cw) ==
    IF \E w \in cw : w.intervals > MIN_PERSISTENCE_INTERVALS
    THEN ws \o <<CHOOSE w \in cw : TRUE>>
    ELSE ws

\* `if current_window['intervals'] >= MIN_PERSISTENCE_INTERVALS:
\*      windows.append(current_window)`; cw is {} for None
CloseWindow(ws, cw) ==
    IF \E w \in cw : w.intervals >= MIN_PERSISTENCE_INTERVALS
    THEN ws \o <<CHOOSE w \in cw : TRUE>>
    ELSE ws

\* one iteration of `for i, (timestamp, count, station_winds) in
\* enumerate(results)`
FindWindowsStep(ws, cw, i, timestamp, count) ==
    IF count >= MIN_REFERENCE_STATIONS
    THEN IF cw = {}
         THEN [windows |-> ws,
               current_window |-> {[start |-> timestamp, end |-> timestamp,
                                    intervals |-> 1, start_idx |-> i,
                                    end_idx |-> i]}]
         ELSE [windows |-> ws,
               current_window |->
                   {[w EXCEPT !.end = timestamp, !.intervals = @ + 1,
                              !.end_idx = i] : w \in cw}]
    ELSE [windows |-> CloseWindow(ws, cw), current_window |-> {}]

\* station readings of one timestamp, reference stations only: 4 of 8
\* at/above 63 km/h; 3 of 8; 4 of 4 with the other four missing
VerifySpeedGroups ==
    { <<70, 70, 70, 70, 20, 20, 20, 20>>,
      <<63, 63, 63, 62, 20, 20, 20, 20>>,
      <<63, 63, 63, 63, NaN, NaN, NaN, NaN>> }

\* --signal-times of the analysis run: absent, or Signal 8 over slots 2..5
VerifyTimings ==
    { NoTiming,
      [given |-> TRUE, signal8_start |-> 2, signal8_end |-> 5,
       has_signal10 |-> FALSE] }

InitVerify ==
    /\ \E p \in ExportPeriods, n \in 1..MaxVerifyRows :
          \E g \in [1..n -> VerifySpeedGroups] :
              /\ opts = ExportOptions(p)
              /\ timing \in VerifyTimings
              /\ time_df = WrittenTable(g, opts, timing)
              /\ results = [k \in 1..n |->
                               [timestamp |-> k,
                                count |-> CountStationsMeetingThreshold(g[k])]]
    /\ pc = "find"
    /\ loop_i = 0
    /\ current_window = {}
    /\ windows = <<>>
    /\ caller_df = [columns |-> {}, rows |-> <<>>]
    /\ record = [returned |-> FALSE]
    /\ track_forecast = <<>>
    /\ consecutive_count = 0
    /\ NoSnapshot
    /\ NoTransparency
    /\ csv_exists = FALSE
    /\ event_meta = NoEvent
    /\ algo_detection = NoDetection
    /\ scan = NoScan
    /\ pattern_validated = FALSE
    /\ verification_tier = "none"

\* the loop body of find_persistence_windows for results[i]
FindPersistenceWindowsStep ==
    /\ pc = "find"
    /\ loop_i < Len(results)
    /\ LET r  == results[loop_i + 1]
           st == FindWindowsStep(windows, current_window, loop_i,
                                 r.timestamp, r.count)
       IN  /\ windows' = st.windows
           /\ current_window' = st.current_window
    /\ loop_i' = loop_i + 1
    /\ UNCHANGED <<caller_df, record, results, track_forecast,
                   consecutive_count, pc, transparencyVars, csv_exists,
                   snapshotVars, opts, timing, time_df, exportVars>>

\* "Don't forget the last window", then `return windows`
FindPersistenceWindowsEnd ==
    /\ pc = "find"
    /\ loop_i = Len(results)
    /\ windows' = CloseWindow(windows, current_window)
    /\ pc' = "found"
    /\ UNCHANGED <<caller_df, record, results, current_window, track_forecast,
                   consecutive_count, loop_i, transparencyVars, csv_exists,
                   snapshotVars, opts, timing, time_df, exportVars>>

NextVerify == FindPersistenceWindowsStep \/ FindPersistenceWindowsEnd

SpecVerify == InitVerify /\ [][NextVerify]_vars

(***************************************************************************)
(* hko_compliant_algorithm.check_persistence.  A forecast point is         *)
(* represented by its qualifying_count, the number of stations whose       *)
(* forecast wind is at least 63 km/h.                                      *)
(***************************************************************************)
MaxTrack == 7

\* track_forecast[:6]: "Check next 60 minutes (6 periods)"
ForecastHorizon == 6

ScannedPoints(track) ==
    IF Len(track) < ForecastHorizon THEN Len(track) ELSE ForecastHorizon

\* variant of NextConsecutiveCount: the counter is not reset
NextConsecutiveCount_NoReset(count, qualifying_count, min_stations) ==
    IF qualifying_count >= min_stations THEN count + 1 ELSE count

\* consecutive_count after the loop body has handled a forecast point
NextConsecutiveCount(count, qualifying_count, min_stations) ==
    IF qualifying_count >= min_stations THEN count + 1 ELSE 0

\* qualifying_count of a forecast point
QualifyingCounts == {3, 4}

\* min_stations (default 4) and min_periods (default 3) of the call
ForecastOptions ==
    [min_stations : {3, 4, 5}, min_periods : 1..MaxPeriods]

InitForecast ==
    /\ opts \in ForecastOptions
    /\ \E n \in 0..MaxTrack : track_forecast \in [1..n -> QualifyingCounts]
    /\ consecutive_count = 0
    /\ loop_i = 0
    /\ pc = "check_persistence"
    /\ timing = NoTiming
    /\ time_df = <<>>
    /\ caller_df = [columns |-> {}, rows |-> <<>>]
    /\ record = [returned |-> FALSE]
    /\ results = <<>>
    /\ current_window = {}
    /\ windows = <<>>
    /\ NoSnapshot
    /\ NoTransparency
    /\ csv_exists = FALSE
    /\ event_meta = NoEvent
    /\ algo_detection = NoDetection
    /\ scan = NoScan
    /\ pattern_validated = FALSE
    /\ verification_tier = "none"

\* `if len(track_forecast) < min_periods: return False`
TrackTooShort ==
    /\ pc = "check_persistence"
    /\ Len(track_forecast) < opts.min_periods
    /\ pc' = "return False"
    /\ UNCHANGED <<toolVars, transparencyVars, csv_exists, snapshotVars, opts,
                   timing, time_df, exportVars>>

\* one iteration of `for forecast_point in track_forecast[:6]`
ForecastPointStep ==
    /\ pc = "check_persistence"
    /\ Len(track_forecast) >= opts.min_periods
    /\ loop_i < ScannedPoints(track_forecast)
    /\ consecutive_count' =
          NextConsecutiveCount(consecutive_count, track_forecast[loop_i + 1],
                               opts.min_stations)
    /\ loop_i' = loop_i + 1
    /\ pc' = IF /\ track_forecast[loop_i + 1] >= opts.min_stations
                /\ consecutive_count' >= opts.min_periods
             THEN "return True"
             ELSE pc
    /\ UNCHANGED <<caller_df, record, results, current_window, windows,
                   track_forecast, transparencyVars, csv_exists, snapshotVars,
                   opts, timing, time_df, exportVars>>

\* the loop is over: `return False`
ForecastExhausted ==
    /\ pc = "check_persistence"
    /\ Len(track_forecast) >= opts.min_periods
    /\ loop_i = ScannedPoints(track_forecast)
    /\ pc' = "return False"
    /\ UNCHANGED <<toolVars, transparencyVars, csv_exists, snapshotVars, opts,
                   timing, time_df, exportVars>>

NextForecast == TrackTooShort \/ ForecastPointStep \/ ForecastExhausted

SpecForecast == InitForecast /\ [][NextForecast]_vars

(***************************************************************************)
(* Reading the written table.                                              *)
(***************************************************************************)
Written == pc = "written"

Rows == 1..Len(time_df)

\* the qualification conditions of row i, read off its columns
InWindow(i) == timing.given => time_df[i].in_T8_window

MeetsHko(i) ==
    /\ time_df[i].n_stations >= opts.min_stations
    /\ time_df[i].count_ge_T8 >= HKO_MIN_STATIONS

Qualifies(i) == MeetsHko(i) /\ InWindow(i)

RunLength(i) == time_df[i].consecutive_periods_above_T8

\* the number of rows of the unbroken qualifying stretch that ends at row i
RECURSIVE StretchEndingAt(_)
StretchEndingAt(i) ==
    IF i = 0 \/ ~Qualifies(i) THEN 0 ELSE 1 + StretchEndingAt(i - 1)

LabelledBelowT8(i) == time_df[i].recommended_signal \notin {"T8", "T10"}

(***************************************************************************)
(* C2: scanning the rows in table order from run length 0, the run length  *)
(* is 0 after a non-qualifying snapshot, 1 after a qualifying snapshot     *)
(* that is first or follows a non-qualifying one, and 1 + the previous run *)
(* length after a qualifying snapshot that follows a qualifying one.       *)
(***************************************************************************)
C2_RunLengthTransition ==
    Written =>
        \A i \in Rows :
            RunLength(i) =
                IF ~Qualifies(i) THEN 0
                ELSE IF i = 1 \/ ~Qualifies(i - 1) THEN 1
                ELSE 1 + RunLength(i - 1)

C2_Witness ==
    /\ Written
    /\ \E i \in Rows :
          /\ i >= 4
          /\ Qualifies(i - 3) /\ ~Qualifies(i - 2)
          /\ Qualifies(i - 1) /\ Qualifies(i)
          /\ RunLength(i - 2) = 0 /\ RunLength(i - 1) = 1 /\ RunLength(i) = 2

(***************************************************************************)
(* C3: persistent_T8 is true iff the snapshot qualifies and its run length *)
(* is at least persistence_periods; transient_spike_T8 is true iff it      *)
(* qualifies and is not persistent.  So the flags are never both true,     *)
(* exactly one is true on a qualifying snapshot, none on the others.       *)
(***************************************************************************)
C3_PersistentTransientFlags ==
    Written =>
        \A i \in Rows :
            /\ time_df[i].persistent_T8 =
                   (Qualifies(i) /\ RunLength(i) >= opts.persistence_periods)
            /\ time_df[i].transient_spike_T8 =
                   (Qualifies(i) /\ ~time_df[i].persistent_T8)
            /\ ~(time_df[i].persistent_T8 /\ time_df[i].transient_spike_T8)
            /\ Qualifies(i) =
                   (time_df[i].persistent_T8 # time_df[i].transient_spike_T8)
            /\ ~Qualifies(i) =>
                   ~time_df[i].persistent_T8 /\ ~time_df[i].transient_spike_T8

C3_Witness ==
    /\ Written
    /\ opts.persistence_periods = 2
    /\ \E i, j, k \in Rows :
          /\ time_df[i].transient_spike_T8 /\ ~time_df[i].persistent_T8
          /\ time_df[j].persistent_T8 /\ ~time_df[j].transient_spike_T8
          /\ ~Qualifies(k)

(***************************************************************************)
(* C4: in a maximal run of k consecutive qualifying snapshots with         *)
(* threshold p >= 1 the first min(k, p-1) snapshots are transient spikes   *)
(* and the later ones persistent; the non-qualifying snapshot that ends    *)
(* the run has run length 0 and neither flag.  Five qualifying snapshots   *)
(* then one non-qualifying with p = 3 give persistent flags                *)
(* False, False, True, True, True, False.                                  *)
(***************************************************************************)
FiveThenOne ==
    /\ Len(time_df) = 6
    /\ opts.persistence_periods = 3
    /\ \A i \in 1..5 : Qualifies(i)
    /\ ~Qualifies(6)

C4_RunPrefixTransient ==
    Written =>
        /\ \A i \in Rows :
              IF Qualifies(i)
              THEN /\ time_df[i].persistent_T8 =
                         (StretchEndingAt(i) >= opts.persistence_periods)
                   /\ time_df[i].transient_spike_T8 =
                         (StretchEndingAt(i) <= opts.persistence_periods - 1)
              ELSE /\ RunLength(i) = 0
                   /\ ~time_df[i].persistent_T8
                   /\ ~time_df[i].transient_spike_T8
        /\ FiveThenOne =>
              /\ [i \in 1..6 |-> time_df[i].persistent_T8] =
                     <<FALSE, FALSE, TRUE, TRUE, TRUE, FALSE>>
              /\ RunLength(6) = 0

C4_Witness == Written /\ FiveThenOne

(***************************************************************************)
(* C5: whether a snapshot qualifies is decided from the raw count of       *)
(* stations at/above T8 (63 km/h, inclusive) being >= 4, with the          *)
(* minimum-station and in-window conditions, and not from the              *)
(* instantaneous label: giving a snapshot any other recommended_signal     *)
(* leaves the result as it is, and a snapshot with exactly 4 of 8          *)
(* stations at/above 63 qualifies even when its label is below T8.         *)
(***************************************************************************)
AnyLabel == Labels \cup {BelowT1}

FourOfEight(i) ==
    /\ time_df[i].n_stations = 8
    /\ time_df[i].count_ge_T8 = 4

C8_WindowRestrictsQualification ==
    Written =>
        \A i \in Rows :
            IF timing.given
            THEN /\ ~time_df[i].in_T8_window =>
                       /\ RunLength(i) = 0
                       /\ ~time_df[i].persistent_T8
                       /\ ~time_df[i].transient_spike_T8
                 /\ time_df[i].persistent_T8 => time_df[i].in_T8_window
                 /\ (time_df[i].in_T8_window /\ i > 1
                        /\ ~time_df[i - 1].in_T8_window)
                       => RunLength(i) <= 1
                 /\ time_df[i].in_T8_window =
                       (/\ timing.signal8_start <= time_df[i].datetime
                        /\ time_df[i].datetime <= timing.signal8_end)
            ELSE /\ "in_T8_window" \notin DOMAIN time_df[i]
                 /\ (RunLength(i) > 0) = MeetsHko(i)

C8_Witness ==
    /\ Written
    /\ timing.given
    /\ \E i \in Rows :
          /\ i > 1
          /\ MeetsHko(i - 1) /\ ~time_df[i - 1].in_T8_window
          /\ RunLength(i - 1) = 0
          /\ MeetsHko(i) /\ time_df[i].in_T8_window
          /\ RunLength(i) = 1

C8_WitnessNoAnnotation ==
    /\ Written
    /\ ~timing.given
    /\ Len(time_df) = MaxRows
    /\ \A i \in Rows : RunLength(i) = i

(***************************************************************************)
(* Reading the export's state.                                             *)
(***************************************************************************)
Issued == event_meta.official_signal8_start # {}

\* a persistent row among the rows parse_time_summary looks at: those with
\* at most 8 valid stations, or all rows when there is none of these
PersistentFound ==
    IF \E i \in Rows : time_df[i].n_stations <= REFERENCE_STATIONS
    THEN \E i \in Rows : /\ time_df[i].n_stations <= REFERENCE_STATIONS
                          /\ time_df[i].persistent_T8
    ELSE \E i \in Rows : time_df[i].persistent_T8

\* the rows detect_pattern_validated scans, and their flags
OfficialWindow ==
    WindowDf(time_df, event_meta.official_signal8_start,
             event_meta.official_signal8_end)

WindowFlags == Meets(OfficialWindow)

NoPersistentInWindow ==
    \A i \in 1..Len(OfficialWindow) : ~OfficialWindow[i].persistent_T8

\* met, then at least 2 consecutive not met, then met
MetLullMet(f) ==
    \E i, j \in 1..Len(f) :
        /\ f[i] /\ f[j]
        /\ j - i >= 3
        /\ \A k \in (i + 1)..(j - 1) : ~f[k]

PatternReturned == pc \in {"resolve", "done"} /\ scan.invoked

C9_WitnessLeadingLull ==
    /\ PatternReturned
    /\ NoPersistentInWindow
    /\ ~pattern_validated
    /\ Len(WindowFlags) >= 4
    /\ ~WindowFlags[1] /\ ~WindowFlags[2] /\ WindowFlags[3]

(***************************************************************************)
(* C10: in the pattern scan a met interval that arrives while the lull run *)
(* is shorter than 2 resets the lull counter to 0 and leaves the `first    *)
(* met interval seen` memory set; the memory is never cleared once set,    *)
(* so a later lull of 2 or more followed by a met interval still confirms  *)
(* the pattern: met, unmet, met, unmet, unmet, met is detected.            *)
(***************************************************************************)
MetUnmetMetUnmetUnmetMet == <<TRUE, FALSE, TRUE, FALSE, FALSE, TRUE>>

ShortLullKeepsMemory ==
    /\ (pc = "scan" /\ scan.idx <= Len(scan.meets)
          /\ scan.meets[scan.idx] /\ scan.calm_run < 2)
          => (scan'.calm_run = 0 /\ scan'.initial_met /\ ~scan'.returned)
    /\ (pc = "scan" /\ scan.initial_met) => scan'.initial_met
    /\ (pc = "scan" /\ pc' = "resolve"
          /\ scan.meets = MetUnmetMetUnmetUnmetMet)
          => pattern_validated'

C10_ShortLullKeepsMemory == [][ShortLullKeepsMemory]_vars

C10_Witness ==
    /\ pc = "resolve"
    /\ scan.invoked
    /\ WindowFlags = MetUnmetMetUnmetUnmetMet
    /\ scan.initial_met
    /\ scan.returned
    /\ pattern_validated

(***************************************************************************)
(* C11 as claimed: detect_pattern_validated returns false whenever any     *)
(* snapshot inside the official Signal 8 window is persistent.             *)
(***************************************************************************)
InOfficialWindow(i) ==
    /\ \A t \in event_meta.official_signal8_start : time_df[i].datetime >= t
    /\ \A t \in event_meta.official_signal8_end : time_df[i].datetime <= t

Timestamps(df) == [i \in 1..Len(df) |-> df[i].datetime]

SummaryColumns ==
    {"datetime", "n_stations", "area_mean_kmh", "recommended_signal",
     "coverage_T1", "coverage_T3", "coverage_T7", "coverage_T8",
     "coverage_T10", "count_ge_T1", "count_ge_T3", "count_ge_T7",
     "count_ge_T8", "count_ge_T10"}

SummaryPart(df) ==
    [i \in 1..Len(df) |-> [f \in SummaryColumns |-> df[i][f]]]

AnnotationIsNonDestructive ==
    (pc \in {"summarize", "persistence"} /\ pc' \in {"persistence", "written"})
        => /\ Len(time_df') = Len(time_df)
           /\ Timestamps(time_df') = Timestamps(time_df)
           /\ SummaryPart(time_df') = SummaryPart(time_df)

C20_AnnotationIsNonDestructive == [][AnnotationIsNonDestructive]_vars

C20_Witness ==
    /\ Written
    /\ timing.given
    /\ Len(time_df) = MaxRows
    /\ Timestamps(time_df) = [i \in 1..MaxRows |-> i]
    /\ ~time_df[1].in_T8_window
    /\ ~time_df[MaxRows].in_T8_window
    /\ \E i \in Rows : time_df[i].in_T8_window /\ time_df[i].persistent_T8

(***************************************************************************)
(* Reading the classifier's call.                                          *)
(***************************************************************************)
Classified == pc = "classified"

ValidSpeeds == Valid(speeds_kmh)

\* 0 for no label, else the position of the label in the ascending ladder
Rank(label) ==
    IF label = "None" THEN 0
    ELSE CHOOSE i \in 1..Len(Ladder) : Ladder[i][1] = label

DecideUnder(speeds, o) ==
    DecideSignalForSnapshot(speeds, DEFAULT_THRESHOLDS_KMH, o.method,
                            o.coverage, o.percentile, o.min_count)

\* the rungs whose pass test succeeds; no test is run without a valid speed
PassingRungs ==
    IF Len(ValidSpeeds) = 0 THEN {}
    ELSE {i \in 1..Len(Ladder) :
             Passed(ValidSpeeds, Ladder[i][2], opts.method, opts.coverage,
                    opts.percentile, opts.min_count)}

(***************************************************************************)
(* C13: the snapshot classifier walks the thresholds in ascending order    *)
(* and returns the label of the highest threshold whose pass test          *)
(* succeeds (the last passing label, not the first), and returns no label  *)
(* only when no threshold passes.                                          *)
(***************************************************************************)
C13_HighestPassingLabel ==
    /\ \A i, j \in 1..Len(Ladder) : i < j => Ladder[i][2] < Ladder[j][2]
    /\ Classified =>
          /\ (rec = "None") = (PassingRungs = {})
          /\ \A i \in PassingRungs :
                /\ rec \in Labels
                /\ DEFAULT_THRESHOLDS_KMH[rec] >= Ladder[i][2]
                /\ Rank(rec) \in PassingRungs

C13_Witness ==
    /\ Classified
    /\ rec = "T8"
    /\ PassingRungs = {1, 2, 3, 4}
    /\ opts.method = "percentile"

(***************************************************************************)
(* C14: under the coverage method a threshold passes iff the count of      *)
(* valid speeds at/above it is at least min_count when min_count is        *)
(* configured (the coverage fraction is then ignored), and otherwise iff   *)
(* count / valid_count is at least the coverage fraction.                  *)
(***************************************************************************)
CoveragePasses(thr, o) ==
    LET count == Cardinality({i \in 1..Len(speeds_kmh) :
                                 speeds_kmh[i] # NaN /\ speeds_kmh[i] >= thr})
        valid_count == Cardinality({i \in 1..Len(speeds_kmh) :
                                       speeds_kmh[i] # NaN})
    IN  IF o.min_count # {} THEN \E m \in o.min_count : count >= m
        ELSE 100 * count >= o.coverage * valid_count

CoverageRungs(o) == {i \in 1..Len(Ladder) : CoveragePasses(Ladder[i][2], o)}

C14_CoveragePassTest ==
    (Classified /\ opts.method = "coverage" /\ Len(ValidSpeeds) > 0) =>
        /\ (rec = "None") = (CoverageRungs(opts) = {})
        /\ \A i \in CoverageRungs(opts) :
              rec \in Labels /\ Rank(rec) >= i /\ Rank(rec) \in CoverageRungs(opts)
        /\ opts.min_count # {} =>
              \A c \in CoverageFractions \cup {1, 100} :
                  DecideUnder(speeds_kmh, [opts EXCEPT !.coverage = c]) = rec

C14_Witness ==
    /\ Classified
    /\ opts.method = "coverage"
    /\ opts.min_count = {1}
    /\ rec = "T8"
    /\ DecideUnder(speeds_kmh, [opts EXCEPT !.min_count = {}]) = "None"

(***************************************************************************)
(* C19: for each aggregation method and a fixed station set, replacing     *)
(* every station's speed by a speed at least as large never lowers the     *)
(* severity rank of the label.                                             *)
(***************************************************************************)
\* the same stations report, each one at least as fast
RaisedSpeeds(speeds) ==
    {r \in [1..Len(speeds) -> SpeedValues] :
        \A i \in 1..Len(speeds) :
            /\ (r[i] = NaN) = (speeds[i] = NaN)
            /\ r[i] >= speeds[i]}

C19_LabelMonotoneInSpeeds ==
    Classified =>
        \A r \in RaisedSpeeds(speeds_kmh) :
            Rank(DecideUnder(r, opts)) >= Rank(rec)

C19_Witness ==
    /\ Classified
    /\ opts.method = "percentile"
    /\ Len(ValidSpeeds) = MaxStations
    /\ rec = "T3"
    /\ \E r \in RaisedSpeeds(speeds_kmh) :
          /\ \E i \in 1..Len(r) : r[i] = speeds_kmh[i]
          /\ Rank(DecideUnder(r, opts)) > Rank(rec)

(***************************************************************************)
(* Reading the table summarize_over_time returned.                         *)
(***************************************************************************)
Summarized == pc = "summarized"

\* the valid speeds observed at the timestamp of row i
ObservedAt(i) ==
    {k \in 1..Len(obs) :
        obs[k].datetime = time_df[i].datetime /\ obs[k].mean_kmh # NaN}

CountColumn == [T1 |-> "count_ge_T1", T3 |-> "count_ge_T3",
                T7 |-> "count_ge_T7", T8 |-> "count_ge_T8",
                T10 |-> "count_ge_T10"]

CoverageColumn == [T1 |-> "coverage_T1", T3 |-> "coverage_T3",
                   T7 |-> "coverage_T7", T8 |-> "coverage_T8",
                   T10 |-> "coverage_T10"]

(***************************************************************************)
(* C15 as claimed: a timestamp with fewer valid stations than the          *)
(* configured minimum gets the label "indeterminate" without the           *)
(* classifier being invoked, a label distinct from the one given when      *)
(* enough stations reported and none reached the lowest threshold.         *)
(***************************************************************************)
C15_Claimed_IndeterminateLabel ==
    Summarized =>
        \A i \in Rows :
            time_df[i].n_stations < opts.min_stations =>
                /\ time_df[i].recommended_signal = "indeterminate"
                /\ time_df[i].recommended_signal # BelowT1

\* what the table holds instead: both cases carry the label "Below T1"
C15_BothCasesLabelledBelowT1 ==
    Summarized =>
        \A i \in Rows :
            \/ time_df[i].n_stations < opts.min_stations
            \/ DecideUnder(GroupSpeeds(obs, time_df[i].datetime), opts) = "None"
            => time_df[i].recommended_signal = BelowT1

(***************************************************************************)
(* C16 as claimed: summarize_over_time produces exactly one snapshot per   *)
(* distinct observation timestamp, in strictly ascending timestamp order,  *)
(* and the result is the same for every permutation of the observations.   *)
(***************************************************************************)
OneSnapshotPerTimestamp ==
    /\ {time_df[i].datetime : i \in Rows} = {obs[k].datetime : k \in 1..Len(obs)}
    /\ \A i, j \in Rows : i < j => time_df[i].datetime < time_df[j].datetime

RowPermutations(n) ==
    {f \in [1..n -> 1..n] : \A i, j \in 1..n : f[i] = f[j] => i = j}

Permuted(df, f) == [k \in 1..Len(df) |-> df[f[k]]]

SameForEveryPermutation ==
    \A f \in RowPermutations(Len(obs)) :
        /\ ~SortValuesKeyError(Permuted(obs, f), opts)
        /\ SummarizeOverTimeDf(Permuted(obs, f), opts) = time_df

C16_Claimed_OneSnapshotPerTimestamp ==
    pc \in {"summarized", "KeyError"} =>
        /\ Summarized
        /\ OneSnapshotPerTimestamp
        /\ SameForEveryPermutation

\* the same for a table that has at least one observation
C16_HoldsForNonEmptyTable ==
    /\ pc = "KeyError" => Len(obs) = 0
    /\ Summarized =>
          /\ Len(obs) > 0
          /\ OneSnapshotPerTimestamp
          /\ SameForEveryPermutation

(***************************************************************************)
(* C17: for every timestamp the per-threshold counts and coverages are     *)
(* computed for all ladder thresholds and are the same whichever method,   *)
(* coverage fraction, min_count, percentile or min_stations is             *)
(* configured, also where the valid-station count is below min_stations.   *)
(***************************************************************************)
C17_DiagnosticsIndependentOfConfig ==
    Summarized =>
        /\ \A i \in Rows, lbl \in Labels :
              {CountColumn[lbl], CoverageColumn[lbl]} \subseteq DOMAIN time_df[i]
        /\ \A m \in SummarizeChoices :
              LET other == SummarizeOverTimeDf(obs, SummarizeOptions(m))
              IN  /\ Len(other) = Len(time_df)
                  /\ \A i \in Rows, lbl \in Labels :
                        /\ other[i][CountColumn[lbl]]
                              = time_df[i][CountColumn[lbl]]
                        /\ other[i][CoverageColumn[lbl]]
                              = time_df[i][CoverageColumn[lbl]]

C17_Witness ==
    /\ Summarized
    /\ \E i \in Rows :
          /\ time_df[i].n_stations > 0
          /\ time_df[i].n_stations < opts.min_stations
          /\ time_df[i].count_ge_T8 = 1
          /\ time_df[i].coverage_T8 = Ratio(1, 1)
          /\ time_df[i].recommended_signal = BelowT1

(***************************************************************************)
(* C18: for every snapshot and every ladder label the count lies between   *)
(* 0 and the valid-station count; the coverage lies in [0, 1] when the     *)
(* valid-station count is positive and is NaN, never a number, when it     *)
(* is 0.                                                                   *)
(***************************************************************************)
C18_CountAndCoverageRanges ==
    Summarized =>
        \A i \in Rows, lbl \in Labels :
            LET count == time_df[i][CountColumn[lbl]]
                cov   == time_df[i][CoverageColumn[lbl]]
            IN  /\ time_df[i].n_stations = Cardinality(ObservedAt(i))
                /\ 0 <= count
                /\ count <= time_df[i].n_stations
                /\ time_df[i].n_stations > 0 =>
                      /\ cov.den > 0
                      /\ 0 <= cov.num
                      /\ cov.num <= cov.den
                /\ time_df[i].n_stations = 0 => cov = NaNRatio

C18_Witness ==
    /\ Summarized
    /\ Len(time_df) = 2
    /\ time_df[1].n_stations = 0
    /\ time_df[1].coverage_T1 = NaNRatio
    /\ time_df[1].count_ge_T1 = 0
    /\ time_df[2].n_stations = 2
    /\ time_df[2].coverage_T8 = Ratio(1, 2)
    /\ time_df[2].coverage_T1 = Ratio(1, 2)

(***************************************************************************)
(* C26: with persistence threshold 1, persistent_T8 is true on exactly the *)
(* qualifying snapshots and transient_spike_T8 is false on every snapshot. *)
(***************************************************************************)
C26_ThresholdOneIsInstantaneous ==
    (Written /\ opts.persistence_periods = 1) =>
        \A i \in Rows :
            /\ time_df[i].persistent_T8 = Qualifies(i)
            /\ ~time_df[i].transient_spike_T8

C26_Witness ==
    /\ Written
    /\ opts.persistence_periods = 1
    /\ Len(time_df) >= 4
    /\ Qualifies(1) /\ time_df[1].persistent_T8
    /\ ~Qualifies(2) /\ ~time_df[2].persistent_T8
    /\ Qualifies(3) /\ time_df[3].persistent_T8
    /\ RunLength(4) = 2 /\ time_df[4].persistent_T8

(***************************************************************************)
(* C30: the pattern scan returns true at the first met -> lull(>=2) -> met *)
(* cycle it finds, so detection is prefix-closed: when a prefix of the     *)
(* in-window sequence holds the cycle, the scan of the whole sequence      *)
(* returns true, at the interval that completes the first cycle, whatever  *)
(* follows it.                                                             *)
(***************************************************************************)
ScanRan == PatternReturned /\ "meets" \in DOMAIN scan

Prefix(f, k) == SubSeq(f, 1, k)

\* the lengths of the prefixes of the scanned flags that hold a cycle
DetectingPrefixes ==
    {k \in 1..Len(scan.meets) : MetLullMet(Prefix(scan.meets, k))}

C30_DetectionIsPrefixClosed ==
    ScanRan =>
        /\ pattern_validated = (DetectingPrefixes # {})
        /\ pattern_validated =>
              /\ scan.idx \in DetectingPrefixes
              /\ \A k \in DetectingPrefixes : scan.idx <= k
        /\ ~pattern_validated => scan.idx = Len(scan.meets) + 1

C30_Witness ==
    /\ ScanRan
    /\ pattern_validated
    /\ Len(scan.meets) = MaxRows
    /\ scan.idx = 4
    /\ ~scan.meets[5]
    /\ scan.meets[6]

(***************************************************************************)
(* C27 as claimed: with no observations the pipeline yields an empty       *)
(* snapshot table and no error (and the tier is no_signal if no severe     *)
(* window was annotated, unverified if one was annotated and no snapshot   *)
(* lies inside it).                                                        *)
(***************************************************************************)
C27_Claimed_EmptyTableNoError ==
    Len(time_df) = 0 => pc # "KeyError"

\* what the run leaves behind: no table is written, and the export of an
\* event without time_summary.csv resolves the tier the claim names
C27_NoTableIsWritten ==
    /\ pc = "KeyError" => (~csv_exists /\ time_df = <<>>)
    /\ csv_exists => (pc = "written" /\ Len(time_df) > 0)

C27_TierWithoutTable ==
    (pc = "done" /\ ~csv_exists) =>
        /\ ~algo_detection.detected
        /\ ~pattern_validated
        /\ verification_tier = IF Issued THEN "unverified" ELSE "no_signal"

(***************************************************************************)
(* C29 as claimed: an unknown aggregation method is never silently         *)
(* ignored: no call of the classifier or of the aggregator with an         *)
(* unrecognised method yields a label for any snapshot, snapshots with no  *)
(* valid speed or with fewer valid stations than the minimum included.     *)
(***************************************************************************)
UnknownMethod == opts.method \notin AGGREGATION_METHODS

C29_Claimed_UnknownMethodNeverLabels ==
    UnknownMethod => ~Summarized

\* where the unknown method is noticed: only in a call of the classifier
\* that has at least one valid speed
C29_RaisedOnlyWithValidSpeeds ==
    UnknownMethod =>
        /\ pc = "ValueError" => Len(ValidSpeeds) > 0
        /\ Classified => (Len(ValidSpeeds) = 0 /\ rec = "None")

C29_SparseTableIsLabelled ==
    (UnknownMethod /\ Summarized) =>
        \A i \in Rows : /\ time_df[i].n_stations < opts.min_stations
                         /\ time_df[i].recommended_signal = BelowT1

(***************************************************************************)
(* Reading the transparency frames.                                        *)
(***************************************************************************)
Reported == pc = "reported"

T10Analysis == transparency.t10_analysis

EyePassages == transparency.eye_passage_analysis

\* the timestamps of the rows tagged as inside the Signal 10 window
InsideT10 ==
    {time_df[i].datetime : i \in {j \in Rows :
        /\ "in_T10_window" \in DOMAIN time_df[j]
        /\ time_df[j].in_T10_window}}

\* the position in the T10 frame of the row stamped dt
T10Index(dt) == CHOOSE k \in 1..Len(T10Analysis) : T10Analysis[k].datetime = dt

LowWind(k) == T10Analysis[k].t10_low_wind_flag

(***************************************************************************)
(* C21: compute_t10_transparency returns empty calm / eye-passage output   *)
(* whenever the table has no Signal 10 annotation or no snapshot lies      *)
(* inside the Signal 10 window; a snapshot outside the window is never     *)
(* part of the T10 frame, of a calm segment or of a pre/post window.       *)
(***************************************************************************)
C21_OnlyInsideTheExtremeWindow ==
    Reported =>
        /\ (~HasSignal10(timing) \/ InsideT10 = {})
              => transparency = EmptyTransparency
        /\ {T10Analysis[k].datetime : k \in 1..Len(T10Analysis)} = InsideT10
        /\ \A k \in 1..Len(EyePassages) :
              LET e == EyePassages[k]
              IN  /\ e.segment_start \in InsideT10
                  /\ e.segment_end \in InsideT10
                  /\ e.n_calm_intervals
                        = Cardinality({t \in InsideT10 :
                              e.segment_start <= t /\ t <= e.segment_end})
                  /\ e.pre_window_intervals
                        <= Cardinality({t \in InsideT10 : t < e.segment_start})
                  /\ e.post_window_intervals
                        <= Cardinality({t \in InsideT10 : t > e.segment_end})

C21_Witness ==
    /\ Reported
    /\ timing = T10Inner
    /\ Len(time_df) = 4
    /\ \A i \in Rows : time_df[i].area_mean_kmh = Ratio(80, 4)
    /\ Len(EyePassages) = 1
    /\ EyePassages[1].segment_start = 2
    /\ EyePassages[1].segment_end = 3
    /\ EyePassages[1].pre_window_intervals = 0
    /\ EyePassages[1].post_window_intervals = 0

(***************************************************************************)
(* C22: a snapshot inside the Signal 10 window is flagged low-wind iff its *)
(* area mean speed is strictly below the calm threshold and its count of   *)
(* stations at/above T8 is strictly below 4.                               *)
(***************************************************************************)
C22_LowWindFlag ==
    Reported =>
        \A k \in 1..Len(T10Analysis) :
            LET r == T10Analysis[k]
            IN  r.t10_low_wind_flag =
                  (/\ r.area_mean_kmh.den > 0
                   /\ r.area_mean_kmh.num
                         < eye_opts.calm_mean_threshold * r.area_mean_kmh.den
                   /\ r.count_ge_T8 < 4)

C22_Witness ==
    /\ Reported
    /\ Len(T10Analysis) = 4
    /\ T10Analysis[1].area_mean_kmh = Ratio(80, 4) /\ LowWind(1)
    /\ T10Analysis[2].area_mean_kmh = Ratio(100, 4) /\ ~LowWind(2)
    /\ T10Analysis[3].area_mean_kmh = Ratio(252, 11) /\ ~LowWind(3)
    /\ T10Analysis[3].count_ge_T8 = 4
    /\ T10Analysis[4].count_ge_T10 = 4 /\ ~LowWind(4)

(***************************************************************************)
(* C23: the eye-passage output has exactly one row per maximal contiguous  *)
(* run of low-wind snapshots, in window order, whose length is at least    *)
(* eye_min_calm_intervals: a segment holds only low-wind snapshots, its    *)
(* n_calm_intervals is the run length, the in-window snapshots just        *)
(* before and just after it are not low-wind, segments are disjoint, and   *)
(* a run that reaches the last in-window snapshot is reported.             *)
(***************************************************************************)
\* the maximal runs of low-wind flags, as <<first, last>> positions
MaximalRuns ==
    {run \in (1..Len(T10Analysis)) \X (1..Len(T10Analysis)) :
        /\ run[1] <= run[2]
        /\ \A k \in run[1]..run[2] : LowWind(k)
        /\ run[1] = 1 \/ ~LowWind(run[1] - 1)
        /\ run[2] = Len(T10Analysis) \/ ~LowWind(run[2] + 1)}

RetainedRuns ==
    {run \in MaximalRuns :
        run[2] - run[1] + 1 >= eye_opts.eye_min_calm_intervals}

C23_OneRowPerMaximalRun ==
    Reported =>
        /\ Len(EyePassages) = Cardinality(RetainedRuns)
        /\ \A k \in 1..Len(EyePassages) :
              \E run \in RetainedRuns :
                  /\ EyePassages[k].segment_start = T10Analysis[run[1]].datetime
                  /\ EyePassages[k].segment_end = T10Analysis[run[2]].datetime
                  /\ EyePassages[k].n_calm_intervals = run[2] - run[1] + 1
        /\ \A k \in 1..(Len(EyePassages) - 1) :
              EyePassages[k].segment_end < EyePassages[k + 1].segment_start

C23_Witness ==
    /\ Reported
    /\ Len(T10Analysis) = MaxEyeRows
    /\ eye_opts.eye_min_calm_intervals = 2
    /\ LowWind(1) /\ ~LowWind(2) /\ ~LowWind(3)
    /\ LowWind(4) /\ LowWind(5) /\ LowWind(6)
    /\ Len(EyePassages) = 1
    /\ EyePassages[1].segment_start = 4
    /\ EyePassages[1].segment_end = MaxEyeRows
    /\ EyePassages[1].n_calm_intervals = 3

(***************************************************************************)
(* C24: for every retained calm segment the pre-window is the              *)
(* min(eye_prepost_window, in-window snapshots before the start)           *)
(* snapshots just before the start, the post-window the corresponding      *)
(* snapshots just after the end; both hold only in-window snapshots, and   *)
(* fewer than eye_prepost_window of them (zero included) is no error.      *)
(***************************************************************************)
Least(a, b) == IF a <= b THEN a ELSE b

\* extreme-coverage intervals among positions from..to of the T10 frame
ExtremeCoverageIn(from, to) ==
    Cardinality({k \in from..to : T10Analysis[k].count_ge_T10 >= 4})

C24_PrePostWindows ==
    Reported =>
        /\ transparency.returned
        /\ \A k \in 1..Len(EyePassages) :
              LET e      == EyePassages[k]
                  first  == T10Index(e.segment_start)
                  last   == T10Index(e.segment_end)
                  before == first - 1
                  after  == Len(T10Analysis) - last
                  n_pre  == Least(eye_opts.eye_prepost_window, before)
                  n_post == Least(eye_opts.eye_prepost_window, after)
              IN  /\ e.pre_window_intervals = n_pre
                  /\ e.post_window_intervals = n_post
                  /\ e.pre_t10_coverage_intervals
                        = ExtremeCoverageIn(first - n_pre, first - 1)
                  /\ e.post_t10_coverage_intervals
                        = ExtremeCoverageIn(last + 1, last + n_post)

C24_Witness ==
    /\ Reported
    /\ Len(T10Analysis) = MaxEyeRows
    /\ eye_opts.eye_prepost_window = 2
    /\ Len(EyePassages) = 1
    /\ EyePassages[1].segment_start = 4
    /\ T10Analysis[1].count_ge_T10 = 0
    /\ EyePassages[1].pre_window_intervals = 2
    /\ EyePassages[1].pre_t10_coverage_intervals = 2
    /\ EyePassages[1].post_window_intervals = 0

(***************************************************************************)
(* C25: a calm segment is confirmed as an eye passage iff both the         *)
(* pre-window and the post-window count of extreme-coverage intervals      *)
(* (at least 4 stations at/above T10) are at least                         *)
(* eye_min_t10_coverage_intervals; one side alone (2 before and 1 after    *)
(* with minimum 2) is not confirmed, and the commentary is the             *)
(* confirmation text exactly when the segment is confirmed.                *)
(***************************************************************************)
C25_ConfirmedIffBothSides ==
    Reported =>
        \A k \in 1..Len(EyePassages) :
            LET e == EyePassages[k]
            IN  /\ e.qualifies_eye_passage =
                      (/\ e.pre_t10_coverage_intervals
                             >= eye_opts.eye_min_t10_coverage_intervals
                       /\ e.post_t10_coverage_intervals
                             >= eye_opts.eye_min_t10_coverage_intervals)
                /\ e.pre_t10_coverage_intervals
                      = Cardinality({j \in 1..Len(T10Analysis) :
                            /\ T10Analysis[j].count_ge_T10 >= 4
                            /\ T10Analysis[j].datetime < e.segment_start
                            /\ j >= T10Index(e.segment_start)
                                       - eye_opts.eye_prepost_window})
                /\ e.post_t10_coverage_intervals
                      = Cardinality({j \in 1..Len(T10Analysis) :
                            /\ T10Analysis[j].count_ge_T10 >= 4
                            /\ T10Analysis[j].datetime > e.segment_end
                            /\ j <= T10Index(e.segment_end)
                                       + eye_opts.eye_prepost_window})
                /\ (e.commentary = EyeConfirmed) = e.qualifies_eye_passage
                /\ e.commentary \in {EyeConfirmed, EyeNotConfirmed}

C25_Witness ==
    /\ Reported
    /\ eye_opts = DefaultEyeOptions
    /\ Len(T10Analysis) = 6
    /\ Len(EyePassages) = 1
    /\ EyePassages[1].n_calm_intervals = 3
    /\ EyePassages[1].pre_t10_coverage_intervals = 2
    /\ EyePassages[1].post_t10_coverage_intervals = 1
    /\ ~EyePassages[1].qualifies_eye_passage
    /\ EyePassages[1].commentary = EyeNotConfirmed

\* the other side of C25: 2 before and 2 after is confirmed
C25_WitnessConfirmed ==
    /\ Reported
    /\ eye_opts = DefaultEyeOptions
    /\ Len(EyePassages) = 1
    /\ EyePassages[1].pre_t10_coverage_intervals = 2
    /\ EyePassages[1].post_t10_coverage_intervals = 2
    /\ EyePassages[1].qualifies_eye_passage
    /\ EyePassages[1].commentary = EyeConfirmed

(***************************************************************************)
(* C28 as claimed: a configuration whose Signal 10 window is not nested    *)
(* within its Signal 8 window (it starts before the Signal 8 start or      *)
(* ends after the Signal 8 end) is rejected before any snapshot is         *)
(* processed, with no partial output.                                      *)
(***************************************************************************)
NotNested(t) ==
    /\ HasSignal10(t)
    /\ \/ t.signal10_start < t.signal8_start
       \/ t.signal10_end > t.signal8_end

C28_Claimed_NonNestedRejected ==
    NotNested(timing) => (~Reported /\ ~transparency.returned)

\* what main does with it: the rows are tagged window by window, and a row
\* after the Signal 8 end is analysed as a Signal 10 snapshot
C28_NonNestedIsAnnotated ==
    (Reported /\ NotNested(timing)) =>
        /\ \A i \in Rows :
              /\ time_df[i].in_T8_window
                    = (timing.signal8_start <= time_df[i].datetime
                         /\ time_df[i].datetime <= timing.signal8_end)
              /\ time_df[i].in_T10_window
                    = (timing.signal10_start <= time_df[i].datetime
                         /\ time_df[i].datetime <= timing.signal10_end)
        /\ Len(time_df) = 4 =>
              \E k \in 1..Len(T10Analysis) :
                  T10Analysis[k].datetime > timing.signal8_end

(***************************************************************************)
(* C31: with threshold p >= 1, every snapshot flagged persistent_T8 is     *)
(* itself qualifying and is immediately preceded in the table by at least  *)
(* p-1 consecutive qualifying snapshots; each of those p snapshots has     *)
(* count_ge_T8 >= 4, n_stations >= min_stations and lies inside the        *)
(* Signal 8 window when one is annotated.                                  *)
(***************************************************************************)
C31_PersistentEndsQualifyingStretch ==
    Written =>
        \A i \in Rows :
            time_df[i].persistent_T8 =>
                /\ i >= opts.persistence_periods
                /\ \A j \in (i - opts.persistence_periods + 1)..i :
                      /\ time_df[j].count_ge_T8 >= 4
                      /\ time_df[j].n_stations >= opts.min_stations
                      /\ timing.given =>
                            /\ time_df[j].datetime >= timing.signal8_start
                            /\ time_df[j].datetime <= timing.signal8_end

\* p = 3, Signal 8 over rows 2..5: row 1 meets the count outside the
\* window, rows 2..5 qualify, so rows 4 and 5 are persistent and row 3,
\* the third row to meet the count, is not
C31_Witness ==
    /\ Written
    /\ opts.persistence_periods = 3
    /\ timing.given
    /\ Len(time_df) = 6
    /\ \A i \in 1..5 : MeetsHko(i)
    /\ ~time_df[3].persistent_T8
    /\ time_df[4].persistent_T8
    /\ time_df[5].persistent_T8
    /\ ~time_df[6].persistent_T8

(***************************************************************************)
(* C32: snapshots inside the Signal 10 window take part in persistence     *)
(* detection: whether a snapshot qualifies, its run length and its flags   *)
(* do not depend on its in_T10_window value, so a qualifying run continues *)
(* unbroken across the boundary of the Signal 10 window.                   *)
(***************************************************************************)
\* the table with in_T10_window true exactly on the rows of S
WithT10Tags(df, S) ==
    [i \in 1..Len(df) |-> WithColumns(df[i], [in_T10_window |-> i \in S])]

PersistenceColumnsOf(df) ==
    [i \in 1..Len(df) |->
        [consecutive_periods_above_T8 |-> df[i].consecutive_periods_above_T8,
         persistent_T8                |-> df[i].persistent_T8,
         transient_spike_T8           |-> df[i].transient_spike_T8]]

InT10(i) == timing.given /\ time_df[i].in_T10_window

Called == pc = "call" /\ pc' = "returned"

\* the returned rows are the passed rows with the three columns added
OnlyAddsColumns(passed, returned) ==
    /\ Len(returned) = Len(passed)
    /\ \A i \in 1..Len(passed) :
          /\ DOMAIN returned[i] = DOMAIN passed[i] \cup PersistenceColumnNames
          /\ \A c \in DOMAIN passed[i] : returned[i][c] = passed[i][c]

WorksOnACopy ==
    Called => /\ caller_df' = caller_df
              /\ OnlyAddsColumns(caller_df.rows, time_df')

C33_Claimed_WorksOnACopy == [][WorksOnACopy]_vars

\* what holds: a table with at least one row is copied
CopiesNonEmptyTable == (Called /\ Len(caller_df.rows) > 0) => WorksOnACopy

C33_NonEmptyTableIsCopied == [][CopiesNonEmptyTable]_vars

\* and a table without rows comes back with the three columns added to it
C33_EmptyTableIsModified ==
    (pc = "returned" /\ Len(caller_df.rows) = 0) =>
        /\ PersistenceColumnNames \subseteq caller_df.columns
        /\ time_df = <<>>

(***************************************************************************)
(* C34: a snapshot is tagged in_T8_window (resp. in_T10_window) iff        *)
(* window start <= timestamp <= window end, inclusive at both ends, and    *)
(* detect_pattern_validated selects its in-window rows with the same       *)
(* inclusive bounds, so a snapshot stamped exactly at the window end takes *)
(* part in persistence and pattern detection.                              *)
(***************************************************************************)
Between(dt, start, end) == start <= dt /\ dt <= end

\* the reference rows stamped inside the event's official window
OfficialWindowRows ==
    {i \in Rows :
        /\ time_df[i].n_stations <= 8
        /\ \A a \in event_meta.official_signal8_start,
              b \in event_meta.official_signal8_end :
                  Between(time_df[i].datetime, a, b)}

Scanning == scan.invoked /\ "meets" \in DOMAIN scan

Audited == pc = "audited"

C35_Claimed_AuditEqualsExport ==
    Audited => record.classification = verification_tier

\* what holds: the two agree on an existing table whose rows all have at
\* most the 8 reference stations
C35_AgreeOnReferenceTables ==
    (Audited /\ csv_exists /\ \A i \in Rows : time_df[i].n_stations <= 8)
        => record.classification = verification_tier

\* the two ways they differ: a persistent row with more than 8 stations
\* that the export filters out, and a missing table for an event without
\* Signal 8
C35_DifferOnlyByFilterOrMissingTable ==
    (Audited /\ record.classification # verification_tier) =>
        \/ /\ csv_exists
           /\ record.classification = "verified"
           /\ verification_tier \in {"unverified", "pattern_validated"}
           /\ \E i \in Rows : time_df[i].persistent_T8 /\ time_df[i].n_stations > 8
        \/ /\ ~csv_exists
           /\ record.classification = "unverified"
           /\ verification_tier = "no_signal"

\* both ways happen
C35_FilteredRowCase ==
    /\ Audited /\ csv_exists
    /\ opts.persistence_periods = 2
    /\ [i \in Rows |-> time_df[i].n_stations] = <<8, 8, 8, 8, 9, 9>>
    /\ [i \in Rows |-> time_df[i].count_ge_T8] = <<4, 3, 3, 4, 5, 5>>
    /\ event_meta.official_signal8_end = {6}
    /\ record.classification = "verified"
    /\ verification_tier = "pattern_validated"

C35_MissingTableCase ==
    /\ Audited /\ ~csv_exists
    /\ record.classification = "unverified"
    /\ verification_tier = "no_signal"

(***************************************************************************)
(* C36: for a chronologically ordered sequence of snapshots that all lie   *)
(* inside the Signal 8 window and all have at least min_stations valid     *)
(* stations, find_persistence_windows (>= 4 stations for >= 3 consecutive  *)
(* intervals) reports at least one window iff compute_persistence_columns  *)
(* with persistence_periods = 3 flags at least one snapshot persistent,    *)
(* and a reported window of n intervals covers exactly n - 2 persistent    *)
(* snapshots.                                                              *)
(***************************************************************************)
Found == pc = "found"

AllInsideWithEnoughStations ==
    \A i \in Rows :
        InWindow(i) /\ time_df[i].n_stations >= opts.min_stations

PersistentIn(w) ==
    {i \in Rows : /\ time_df[i].persistent_T8
                  /\ w.start <= time_df[i].datetime
                  /\ time_df[i].datetime <= w.end}

C36_CheckerAgreesWithPersistence ==
    (Found /\ AllInsideWithEnoughStations /\ opts.persistence_periods = 3) =>
        /\ (Len(windows) >= 1) = (\E i \in Rows : time_df[i].persistent_T8)
        /\ \A k \in 1..Len(windows) :
              /\ windows[k].intervals >= 3
              /\ windows[k].intervals =
                    windows[k].end_idx - windows[k].start_idx + 1
              /\ Cardinality(PersistentIn(windows[k])) =
                    windows[k].intervals - 2

\* six snapshots inside the window: four at the count, one below, one at
\* the count; one window of 4 intervals, persistent snapshots 3 and 4
C36_Witness ==
    /\ Found /\ AllInsideWithEnoughStations
    /\ opts.persistence_periods = 3
    /\ [k \in 1..Len(results) |-> results[k].count >= 4] =
           <<TRUE, TRUE, TRUE, TRUE, FALSE, TRUE>>
    /\ Len(windows) = 1
    /\ windows[1].start = 1 /\ windows[1].end = 4
    /\ windows[1].intervals = 4
    /\ PersistentIn(windows[1]) = {3, 4}
    /\ {i \in Rows : time_df[i].persistent_T8} = {3, 4}

\* outside the precondition the two differ: a snapshot outside the
\* Signal 8 window, or one with too few valid stations, extends a window
\* of the checker and no run of the table
C36_DifferOutsidePrecondition ==
    /\ Found
    /\ opts.persistence_periods = 3
    /\ ~AllInsideWithEnoughStations
    /\ Len(windows) >= 1
    /\ \A i \in Rows : ~time_df[i].persistent_T8

(***************************************************************************)
(* C37: in every eye-passage row built from a table that                   *)
(* summarize_over_time produced,                                           *)
(* 0 <= pre_t10_coverage_intervals <= pre_t8_coverage_intervals            *)
(*   <= pre_window_intervals <= eye_prepost_window,                        *)
(* likewise for the post-window, and a low-wind snapshot inside a pre- or  *)
(* post-window never counts toward Signal 8 or Signal 10 coverage.         *)
(***************************************************************************)
\* low-wind snapshots among positions from..to of the T10 frame
LowWindIn(from, to) == Cardinality({k \in from..to : LowWind(k)})

C37_CoverageCountsOrdered ==
    Reported =>
        /\ \A k \in 1..Len(T10Analysis) :
              /\ T10Analysis[k].count_ge_T10 <= T10Analysis[k].count_ge_T8
              /\ LowWind(k) => /\ ~T10Analysis[k].t10_meets_t8_coverage
                               /\ ~T10Analysis[k].t10_meets_t10_coverage
        /\ \A k \in 1..Len(EyePassages) :
              LET e     == EyePassages[k]
                  first == T10Index(e.segment_start)
                  last  == T10Index(e.segment_end)
              IN  /\ 0 <= e.pre_t10_coverage_intervals
                  /\ e.pre_t10_coverage_intervals <= e.pre_t8_coverage_intervals
                  /\ e.pre_t8_coverage_intervals <= e.pre_window_intervals
                  /\ e.pre_window_intervals <= eye_opts.eye_prepost_window
                  /\ 0 <= e.post_t10_coverage_intervals
                  /\ e.post_t10_coverage_intervals <= e.post_t8_coverage_intervals
                  /\ e.post_t8_coverage_intervals <= e.post_window_intervals
                  /\ e.post_window_intervals <= eye_opts.eye_prepost_window
                  /\ e.pre_t8_coverage_intervals
                        + LowWindIn(first - e.pre_window_intervals, first - 1)
                        <= e.pre_window_intervals
                  /\ e.post_t8_coverage_intervals
                        + LowWindIn(last + 1, last + e.post_window_intervals)
                        <= e.post_window_intervals

\* defaults (window 6, at least 2 calm intervals): a single calm snapshot,
\* one at Signal 8 but not Signal 10 coverage, one at Signal 10 coverage,
\* then the calm segment: the pre-window has 3 snapshots, one of them
\* low-wind, 2 with Signal 8 and 1 with Signal 10 coverage
C37_Witness ==
    /\ Reported
    /\ eye_opts = DefaultEyeOptions
    /\ Len(T10Analysis) >= 5
    /\ LowWind(1) /\ ~LowWind(2) /\ ~LowWind(3) /\ LowWind(4) /\ LowWind(5)
    /\ Len(EyePassages) = 1
    /\ EyePassages[1].segment_start = T10Analysis[4].datetime
    /\ EyePassages[1].pre_window_intervals = 3
    /\ EyePassages[1].pre_t8_coverage_intervals = 2
    /\ EyePassages[1].pre_t10_coverage_intervals = 1

(***************************************************************************)
(* C38: a calm segment that starts at the first snapshot of the Signal 10  *)
(* window or ends at its last snapshot has an empty pre- or post-window    *)
(* and is therefore never confirmed as an eye passage when                 *)
(* eye_min_t10_coverage_intervals >= 1; it is still reported, with         *)
(* qualifies_eye_passage false.                                            *)
(***************************************************************************)
\* the retained runs that touch the first or the last in-window snapshot
BoundaryRuns ==
    {run \in RetainedRuns : run[1] = 1 \/ run[2] = Len(T10Analysis)}

AtWindowStart(e) == e.segment_start = T10Analysis[1].datetime

AtWindowEnd(e) == e.segment_end = T10Analysis[Len(T10Analysis)].datetime

C38_BoundarySegmentNotConfirmed ==
    Reported =>
        /\ \A run \in BoundaryRuns :
              \E k \in 1..Len(EyePassages) :
                  /\ EyePassages[k].segment_start = T10Analysis[run[1]].datetime
                  /\ EyePassages[k].segment_end = T10Analysis[run[2]].datetime
        /\ \A k \in 1..Len(EyePassages) :
              LET e == EyePassages[k]
              IN  /\ AtWindowStart(e) =>
                        /\ e.pre_window_intervals = 0
                        /\ e.pre_t10_coverage_intervals = 0
                  /\ AtWindowEnd(e) =>
                        /\ e.post_window_intervals = 0
                        /\ e.post_t10_coverage_intervals = 0
                  /\ ((AtWindowStart(e) \/ AtWindowEnd(e))
                         /\ eye_opts.eye_min_t10_coverage_intervals >= 1)
                        => /\ ~e.qualifies_eye_passage
                           /\ e.commentary = EyeNotConfirmed

\* defaults: two calm snapshots open the Signal 10 window and enough
\* Signal 10 coverage follows; the segment is reported and not confirmed
C38_Witness ==
    /\ Reported
    /\ eye_opts = DefaultEyeOptions
    /\ Len(EyePassages) = 1
    /\ AtWindowStart(EyePassages[1])
    /\ EyePassages[1].n_calm_intervals = 2
    /\ EyePassages[1].pre_window_intervals = 0
    /\ EyePassages[1].post_t10_coverage_intervals >= 2
    /\ ~EyePassages[1].qualifies_eye_passage

\* with eye_min_t10_coverage_intervals = 0 the same segment is confirmed
C38_ConfirmedWithMinimumZero ==
    /\ Reported
    /\ eye_opts.eye_min_t10_coverage_intervals = 0
    /\ Len(EyePassages) = 1
    /\ AtWindowStart(EyePassages[1])
    /\ EyePassages[1].pre_window_intervals = 0
    /\ EyePassages[1].qualifies_eye_passage

(***************************************************************************)
(* C39: check_persistence returns true iff the forecast track has at least *)
(* min_periods points and, among its first 6 points scanned in order with  *)
(* a counter that resets on every point with fewer than min_stations       *)
(* stations forecast at >= 63 km/h, some min_periods consecutive points    *)
(* each have at least min_stations such stations; otherwise it returns     *)
(* false.                                                                  *)
(***************************************************************************)
ForecastReturned == pc \in {"return True", "return False"}

\* the first 6 points hold min_periods consecutive points at the count
PersistentStretchInFirstSix ==
    \E first \in 1..6 :
        /\ first + opts.min_periods - 1 <= 6
        /\ first + opts.min_periods - 1 <= Len(track_forecast)
        /\ \A k \in first..(first + opts.min_periods - 1) :
              track_forecast[k] >= opts.min_stations

C39_CheckPersistence ==
    ForecastReturned =>
        (pc = "return True") =
            (/\ Len(track_forecast) >= opts.min_periods
             /\ PersistentStretchInFirstSix)

\* min_stations 4, min_periods 3, seven points 4 3 3 3 4 4 4: the stretch
\* 4 4 4 is complete only at the seventh point, which is not scanned, so
\* false is returned after the sixth
C39_Witness ==
    /\ pc = "return False"
    /\ opts.min_stations = 4 /\ opts.min_periods = 3
    /\ track_forecast = <<4, 3, 3, 3, 4, 4, 4>>
    /\ loop_i = 6
    /\ consecutive_count = 2

\* true is returned at the point that completes the stretch
C39_WitnessTrue ==
    /\ pc = "return True"
    /\ opts.min_stations = 4 /\ opts.min_periods = 3
    /\ track_forecast = <<4, 3, 4, 4, 4, 3>>
    /\ loop_i = 5
    /\ consecutive_count = 3

====
